---- MODULE Spec2Model ----
(***************************************************************************)
(* Model of term-rst-post: the ANSI-aware line wrapper wrap_ansicode and   *)
(* its driver accomodate_motd (ansimotd.py) and the path helpers of        *)
(* filetools.py.  Strings are sequences of one-character strings; the      *)
(* escape character is the element ESC.                                    *)
(***************************************************************************)
EXTENDS Integers, Sequences, FiniteSets, TLC

VARIABLES
    pc,               \* position of wrap_ansicode: "start", "loop", "done",
                      \* or "raised" when an exception left the function
    line_arg,         \* argument ansistr as passed by the caller
    column_width,     \* argument column_width
    match_width,      \* argument match_width
    ansistr,          \* local ansistr: the remaining escaped text
    clearstr_wrapped, \* visible segments returned by textwrap.wrap
    idx,              \* number of segments the for loop has consumed
    ansicodes,        \* running count of escape characters
    ansistr_wrapped,  \* result list
    log,              \* levels of the records handed to the logger
    \* accomodate_motd
    motd_pc,          \* "idle", "start", "read", "wrap", "done" or "exit"
    head_file,        \* contents of head_file, None when not given
    body_file,        \* contents of body_file
    foot_file,        \* contents of foot_file, None when not given
    foot_link,        \* argument foot_link, None when not given
    wrap_width,       \* argument wrap_width
    motd_parts,       \* the dict motd_parts once the files are read
    motd_text,        \* the assembled text of line 93
    motd_lines,       \* the list the wrapping loop works on
    enum_n,           \* the index n of the enumerate loop
    written,          \* what has been written to the body file, None if nothing
    \* direct_path
    path_pc,          \* "idle", "start" or "done"
    rel_path,         \* argument rel_path
    path_result,      \* returned string
    \* common_path_join
    join_pc,          \* "idle", "start" or "done"
    left_path,        \* argument left_path
    right_path,       \* argument right_path
    join_result,      \* [raised, value]: ValueError or the returned string
    \* valid_url
    url_pc,           \* "idle", "start" or "done"
    url_arg,          \* argument url
    url_result,       \* [error, parsed]: the exception or the SplitResult
    \* ANSICodeTranslator
    walk_pc,          \* "idle", "init", "walk", "done" or "exit"
    document,         \* the document tree handed to the translator
    briefing,         \* argument briefing (self.brief_translation)
    events,           \* the visits and departures of document.walkabout
    pos,              \* index in events of the next visit or departure
    head,             \* self.head
    body,             \* self.body
    section_level,    \* self.section_level
    beyond_limit,     \* self.beyond_limit
    first_main_paragraph, \* None or the place of the paragraph in the tree
    output,           \* what astext() returns once the walk is over
    \* wrap_ansicode, invocations in progress at the same time
    frames,           \* the local variables of each invocation
    shared_log        \* levels of the records handed to the module's logger

wrapVars == <<pc, line_arg, column_width, match_width, ansistr,
              clearstr_wrapped, idx, ansicodes, ansistr_wrapped, log>>

motdVars == <<motd_pc, head_file, body_file, foot_file, foot_link, wrap_width,
              motd_parts, motd_text, motd_lines, enum_n, written>>

pathVars == <<path_pc, rel_path, path_result>>

joinVars == <<join_pc, left_path, right_path, join_result>>

\* the variables of the operations modelled after direct_path
urlVars == <<url_pc, url_arg, url_result>>

walkVars == <<walk_pc, document, briefing, events, pos, head, body,
              section_level, beyond_limit, first_main_paragraph, output>>

parVars == <<frames, shared_log>>

extVars == <<joinVars, urlVars, walkVars, parVars>>

vars == <<wrapVars, motdVars, pathVars, extVars>>

\* ------------------------------------------------------------------------
\* Bounds of the model
MaxTokens == 5
MaxWidth == 4
MaxMatch == 2
MaxBody == 3
MaxMotdWidth == 3
MaxPathLen == 5
MaxJoinLen == 3
MaxUrlTail == 3
MaxBlocks == 2
MaxLater == 1
MaxParTokens == 3

\* ------------------------------------------------------------------------
\* Characters
ESC == "ESC"
Digits == {"0", "1", "2", "3", "4", "5", "6", "7", "8", "9"}
Letters == {"a", "b", "c", "d", "e", "f", "g", "h", "i", "j", "k", "l", "m",
            "n", "o", "p", "q", "r", "s", "t", "u", "v", "w", "x", "y", "z",
            "_"}
WordPunct == Letters \cup Digits \cup {"!", "\"", "'", "&", ".", ",", "?"}
WordChars == Letters \cup Digits
Whitespace == {" ", "\t", "\n", "\r", "\f"}

\* ------------------------------------------------------------------------
\* Python string primitives
Min(a, b) == IF a < b THEN a ELSE b
Max(a, b) == IF a > b THEN a ELSE b

\* index normalisation of a slice bound (negative counts from the end)
SliceIndex(n, len) == IF n < 0 THEN Max(n + len, 0) ELSE Min(n, len)

\* s[lo:hi]
PySlice(s, lo, hi) ==
    LET l == SliceIndex(lo, Len(s))
        h == SliceIndex(hi, Len(s))
    IN  IF l < h THEN SubSeq(s, l + 1, h) ELSE <<>>

\* s[:hi] and s[lo:]
PyHead(s, hi) == PySlice(s, 0, hi)
PyTail(s, lo) == PySlice(s, lo, Len(s))

\* does sub occur in s at 0-based offset k
OccursAt(s, sub, k) ==
    /\ k + Len(sub) <= Len(s)
    /\ \A j \in 1..Len(sub) : s[k + j] = sub[j]

\* s.find(sub): first 0-based offset, -1 when absent
PyFind(s, sub) ==
    LET hits == {k \in 0..Len(s) : OccursAt(s, sub, k)}
    IN  IF hits = {} THEN -1 ELSE CHOOSE k \in hits : \A j \in hits : k <= j

\* s.lstrip()
RECURSIVE PyLstrip(_)
PyLstrip(s) ==
    IF s # <<>> /\ s[1] \in Whitespace THEN PyLstrip(Tail(s)) ELSE s

RECURSIVE Concat(_)
Concat(ss) == IF ss = <<>> THEN <<>> ELSE ss[1] \o Concat(Tail(ss))

\* ------------------------------------------------------------------------
\* re.sub('\033\[[0-9;]*m', '', s)

\* length of the escape sequence matched at 1-based position p, 0 if none
RECURSIVE ParamEnd(_, _)
ParamEnd(s, q) ==
    IF q <= Len(s) /\ s[q] \in Digits \cup {";"} THEN ParamEnd(s, q + 1) ELSE q

EscapeLenAt(s, p) ==
    IF p + 1 <= Len(s) /\ s[p] = ESC /\ s[p + 1] = "["
    THEN LET q == ParamEnd(s, p + 2)
         IN  IF q <= Len(s) /\ s[q] = "m" THEN q - p + 1 ELSE 0
    ELSE 0

\* 1-based position of the first escape sequence at or after p, Len(s) + 1
\* when there is none
NextEscape(s, p) ==
    LET starts == {q \in p..Len(s) : EscapeLenAt(s, q) > 0}
    IN  IF starts = {} THEN Len(s) + 1
        ELSE CHOOSE q \in starts : \A r \in starts : q <= r

\* the scan of re.sub: copy up to the next match, skip the match, go on
RECURSIVE StripFrom(_, _)
StripFrom(s, p) ==
    LET q == NextEscape(s, p)
    IN  IF q > Len(s) THEN SubSeq(s, p, Len(s))
        ELSE SubSeq(s, p, q - 1) \o StripFrom(s, q + EscapeLenAt(s, q))

StripAnsi(s) == StripFrom(s, 1)

\* ------------------------------------------------------------------------
\* textwrap.wrap(text, width, replace_whitespace=False, drop_whitespace=False,
\*               break_long_words=False)

\* character at 1-based position i, "" outside the string
At(s, i) == IF i \in 1..Len(s) THEN s[i] ELSE ""

RECURSIVE WsRunEnd(_, _)
WsRunEnd(s, p) ==
    IF p <= Len(s) /\ s[p] \in Whitespace THEN WsRunEnd(s, p + 1) ELSE p

RECURSIVE HyphRunEnd(_, _)
HyphRunEnd(s, p) ==
    IF p <= Len(s) /\ s[p] = "-" THEN HyphRunEnd(s, p + 1) ELSE p

\* lookahead -{2,}\w at position q
EmDashAhead(s, q) ==
    LET e == HyphRunEnd(s, q)
    IN  e - q >= 2 /\ At(s, e) \in WordChars

\* wordsep_re, em-dash between words: (?<=[\w!"'&.,?]) -{2,} (?=\w)
EmDashLenAt(s, p) ==
    IF At(s, p - 1) \in WordPunct /\ EmDashAhead(s, p)
    THEN HyphRunEnd(s, p) - p ELSE 0

\* wordsep_re, hyphenated word: the hyphen at position h ends a chunk
HyphenBreakAt(s, h) ==
    /\ At(s, h) = "-"
    /\ \/ At(s, h - 2) \in Letters /\ At(s, h - 1) \in Letters
       \/ At(s, h - 3) \in Letters /\ At(s, h - 2) = "-" /\ At(s, h - 1) \in Letters
    /\ At(s, h + 1) \in Letters
    /\ \/ At(s, h + 2) \in Letters
       \/ At(s, h + 2) = "-" /\ At(s, h + 3) \in Letters

\* wordsep_re, word alternative: position after the shortest match that
\* has consumed the characters before q
RECURSIVE WordEndFrom(_, _)
WordEndFrom(s, q) ==
    IF HyphenBreakAt(s, q) THEN q + 1
    ELSE IF q > Len(s) \/ s[q] \in Whitespace THEN q
    ELSE IF At(s, q - 1) \in WordPunct /\ EmDashAhead(s, q) THEN q
    ELSE WordEndFrom(s, q + 1)

\* TextWrapper._split: the chunks of s from position p on
RECURSIVE ChunksFrom(_, _)
ChunksFrom(s, p) ==
    IF p > Len(s) THEN <<>>
    ELSE LET e == IF s[p] \in Whitespace THEN WsRunEnd(s, p)
                  ELSE IF EmDashLenAt(s, p) > 0 THEN p + EmDashLenAt(s, p)
                  ELSE WordEndFrom(s, p + 1)
         IN  <<SubSeq(s, p, e - 1)>> \o ChunksFrom(s, e)

Split(s) == ChunksFrom(s, 1)

\* number of leading chunks that fit on a line that already holds cur_len
RECURSIVE FillCount(_, _, _)
FillCount(chunks, cur_len, width) ==
    IF chunks # <<>> /\ cur_len + Len(chunks[1]) <= width
    THEN 1 + FillCount(Tail(chunks), cur_len + Len(chunks[1]), width)
    ELSE 0

\* TextWrapper._wrap_chunks with break_long_words=False, drop_whitespace=False
RECURSIVE WrapChunks(_, _)
WrapChunks(chunks, width) ==
    IF chunks = <<>> THEN <<>>
    ELSE LET n == FillCount(chunks, 0, width)
             take == IF n = 0 THEN 1 ELSE n
         IN  <<Concat(SubSeq(chunks, 1, take))>>
                 \o WrapChunks(SubSeq(chunks, take + 1, Len(chunks)), width)

\* str.expandtabs(8), the step of TextWrapper._munge_whitespace that
\* expand_tabs=True, the default, turns on: a tab becomes the spaces that
\* lead to the next multiple of 8 of the column, which a line break resets
TAB == "\t"
TabSize == 8

RECURSIVE Spaces(_)
Spaces(n) == IF n <= 0 THEN <<>> ELSE <<" ">> \o Spaces(n - 1)

RECURSIVE ExpandFrom(_, _, _)
ExpandFrom(s, p, col) ==
    LET stops == {k \in p..Len(s) : s[k] \in {TAB, "\n", "\r"}}
        q == IF stops = {} THEN Len(s) + 1
             ELSE CHOOSE k \in stops : \A r \in stops : k <= r
        c == col + (q - p)
        n == TabSize - (c % TabSize)
    IN  IF q > Len(s) THEN SubSeq(s, p, Len(s))
        ELSE IF s[q] = TAB
        THEN SubSeq(s, p, q - 1) \o Spaces(n) \o ExpandFrom(s, q + 1, c + n)
        ELSE SubSeq(s, p, q) \o ExpandFrom(s, q + 1, 0)

ExpandTabs(s) == ExpandFrom(s, 1, 0)

TextWrap(text, width) == WrapChunks(Split(ExpandTabs(text)), width)

\* ------------------------------------------------------------------------
\* wrap_ansicode(ansistr, column_width, match_width)

Cutleft(cw, mw) == cw - (mw * 3)
Cutright(cw, codes) == cw + codes
MatchZone(s, cw, mw, codes) == PySlice(s, Cutleft(cw, mw), Cutright(cw, codes))

\* line[(match_width * -1):]
Anchor(line, mw) == PyTail(line, mw * (-1))

MatchStart(s, line, cw, mw, codes) ==
    PyFind(MatchZone(s, cw, mw, codes), Anchor(line, mw))

\* the hard cut is made at the right end of the search zone
CutpointAtZoneEnd(s, line, cw, mw, codes) ==
    LET match_start == MatchStart(s, line, cw, mw, codes)
    IN  IF match_start < 0 THEN Cutright(cw, codes)
        ELSE Cutleft(cw, mw) + match_start + mw

Cutpoint(s, line, cw, mw, codes) ==
    LET match_start == MatchStart(s, line, cw, mw, codes)
    IN  IF match_start < 0 THEN cw
        ELSE Cutleft(cw, mw) + match_start + mw

Leftstr(s, line, cw, mw, codes) ==
    PyLstrip(PyHead(s, Cutpoint(s, line, cw, mw, codes)))

Rightstr(s, line, cw, mw, codes) ==
    PyTail(s, Cutpoint(s, line, cw, mw, codes))

NextAnsicodes(s, line, cw, mw, codes) ==
    codes - (Len(Leftstr(s, line, cw, mw, codes)) - Len(line))

\* the wrapping condition with the length test off by one
NeedsWrapOffByOne(s, cw) == cw > 0 /\ Len(StripAnsi(s)) >= cw

\* the wrapping condition without the test that disables wrapping
NeedsWrapNoGuard(s, cw) == Len(StripAnsi(s)) > cw

\* the wrapping condition of the if statement
NeedsWrap(s, cw) == cw > 0 /\ Len(StripAnsi(s)) > cw

\* the for loop as a function: the lines appended for the segments segs
RECURSIVE WrapLoop(_, _, _, _, _)
WrapLoop(s, segs, cw, mw, codes) ==
    IF segs = <<>> THEN <<>>
    ELSE <<Leftstr(s, segs[1], cw, mw, codes)>>
             \o WrapLoop(Rightstr(s, segs[1], cw, mw, codes), Tail(segs),
                         cw, mw, NextAnsicodes(s, segs[1], cw, mw, codes))

\* the value wrap_ansicode returns
WrapAnsicode(s, cw, mw) ==
    IF NeedsWrap(s, cw)
    THEN WrapLoop(s, TextWrap(StripAnsi(s), cw), cw, mw,
                  Len(s) - Len(StripAnsi(s)))
    ELSE <<s>>

\* ------------------------------------------------------------------------
\* Inputs of wrap_ansicode
SGR == <<ESC, "[", "1", "m">>
Tokens == {<<"a">>, <<" ">>, <<"-">>, SGR}

\* the line of the documented scenario, wrapped at width 20 with window 5
ScenarioLine ==
    <<ESC, "[", "1", "m", "h", "e", "l", "l", "o", ESC, "[", "2", "2", "m",
      " ", "w", "o", "r", "l", "d", ",", " ", "t", "h", "i", "s", " ", "l",
      "i", "n", "e", " ", "i", "s", " ", "l", "o", "n", "g", " ", "e", "n",
      "o", "u", "g", "h", " ", "t", "o", " ", "r", "e", "q", "u", "i", "r",
      "e", " ", "w", "r", "a", "p", "p", "i", "n", "g", " ", "a", "t", " ",
      "a", " ", "w", "i", "d", "t", "h", " ", "o", "f", " ", "t", "w", "e",
      "n", "t", "y">>
Scenario == <<ScenarioLine, 20, 5>>

\* the lines of the model, the lines of three tokens that hold a tab, and
\* the line of the scenario
WrapInputs ==
    LET TokenSeqs == UNION {[1..k -> Tokens] : k \in 0..MaxTokens}
        Lines == {Concat(t) : t \in TokenSeqs}
        Widths == (-1)..MaxWidth
        MatchWidths == (-1)..MaxMatch
        TabTokens == {<<"a">>, <<" ">>, <<TAB>>, SGR}
        TabLines ==
            {Concat(t) : t \in {u \in [1..3 -> TabTokens] :
                                    \E i \in 1..3 : u[i] = <<TAB>>}}
    IN  ((Lines \cup TabLines) \X Widths \X MatchWidths) \cup {Scenario}

WrapInit ==
    /\ \E in \in WrapInputs :
          /\ line_arg = in[1]
          /\ column_width = in[2]
          /\ match_width = in[3]
    /\ ansistr = line_arg
    /\ pc = "start"
    /\ clearstr_wrapped = <<>>
    /\ idx = 0
    /\ ansicodes = 0
    /\ ansistr_wrapped = <<>>
    /\ log = <<>>

\* wrap_ansicode is not called
WrapIdle ==
    /\ pc = "idle"
    /\ line_arg = <<>>
    /\ column_width = 0
    /\ match_width = 0
    /\ ansistr = <<>>
    /\ clearstr_wrapped = <<>>
    /\ idx = 0
    /\ ansicodes = 0
    /\ ansistr_wrapped = <<>>
    /\ log = <<>>

\* lines 119-129: the line is longer than the column, wrap its clear text
WrapBegin ==
    /\ pc = "start"
    /\ NeedsWrap(ansistr, column_width)
    /\ IF column_width <= 0
       THEN \* TextWrapper._wrap_chunks raises ValueError("invalid width")
            /\ pc' = "raised"
            /\ UNCHANGED <<clearstr_wrapped, ansicodes, log>>
       ELSE /\ clearstr_wrapped' = TextWrap(StripAnsi(ansistr), column_width)
            /\ ansicodes' = Len(ansistr) - Len(StripAnsi(ansistr))
            /\ log' = Append(log, "debug")
            /\ pc' = "loop"
    /\ ansistr_wrapped' = <<>>
    /\ idx' = 0
    /\ UNCHANGED <<line_arg, column_width, match_width, ansistr>>
    /\ UNCHANGED <<motdVars, pathVars, extVars>>

\* lines 157-160: nothing to wrap
PassThrough ==
    /\ pc = "start"
    /\ ~NeedsWrap(ansistr, column_width)
    /\ ansistr_wrapped' = <<ansistr>>
    /\ pc' = "done"
    /\ UNCHANGED <<line_arg, column_width, match_width, ansistr,
                   clearstr_wrapped, idx, ansicodes, log>>
    /\ UNCHANGED <<motdVars, pathVars, extVars>>

\* lines 133-152: one iteration of the for loop
Iterate ==
    /\ pc = "loop"
    /\ idx < Len(clearstr_wrapped)
    /\ LET line == clearstr_wrapped[idx + 1]
           hard == MatchStart(ansistr, line, column_width, match_width, ansicodes) < 0
           zone == MatchZone(ansistr, column_width, match_width, ansicodes)
       IN  /\ log' = IF hard
                     THEN Append(log, IF zone # <<>> THEN "warning" ELSE "debug")
                     ELSE log
           /\ ansistr_wrapped' =
                  Append(ansistr_wrapped,
                         Leftstr(ansistr, line, column_width, match_width, ansicodes))
           /\ ansistr' = Rightstr(ansistr, line, column_width, match_width, ansicodes)
           /\ ansicodes' = NextAnsicodes(ansistr, line, column_width, match_width, ansicodes)
    /\ idx' = idx + 1
    /\ UNCHANGED <<pc, line_arg, column_width, match_width, clearstr_wrapped>>
    /\ UNCHANGED <<motdVars, pathVars, extVars>>

\* lines 154-160: the loop is over, return the list
WrapEnd ==
    /\ pc = "loop"
    /\ idx = Len(clearstr_wrapped)
    /\ log' = Append(log, "debug")
    /\ pc' = "done"
    /\ UNCHANGED <<line_arg, column_width, match_width, ansistr,
                   clearstr_wrapped, idx, ansicodes, ansistr_wrapped>>
    /\ UNCHANGED <<motdVars, pathVars, extVars>>

\* ------------------------------------------------------------------------
\* accomodate_motd(body_file, head_file, foot_file, foot_link, wrap_width)

\* an optional value: None or Some(x)
None == <<>>
Some(x) == <<x>>
\* truth value of an optional string: None and '' are false
Truthy(o) == o # None /\ o[1] # <<>>
\* the string of an optional string that is not None
Get(o) == o[1]

NL == "\n"

\* re.sub("(.)\n(?!\n)", r"\1 ", text): a newline that follows a character
\* other than a newline and is not followed by a newline becomes a space
SoftUnwrap(text) ==
    [i \in 1..Len(text) |->
        IF /\ text[i] = NL
           /\ i > 1 /\ text[i - 1] # NL
           /\ (i = Len(text) \/ text[i + 1] # NL)
        THEN " " ELSE text[i]]

\* '\nMore information in\n{foot_link}\n'
FootLinkText(link) ==
    <<NL, "M", "o", "r", "e", " ", "i", "n", "f", "o", "r", "m", "a", "t",
      "i", "o", "n", " ", "i", "n", NL>> \o link \o <<NL>>

\* position of the first line boundary of text at or after p, Len(text) + 1
\* when there is none
NextBreak(text, p) ==
    LET breaks == {q \in p..Len(text) : text[q] = NL}
    IN  IF breaks = {} THEN Len(text) + 1
        ELSE CHOOSE q \in breaks : \A r \in breaks : q <= r

\* text.splitlines(), for texts whose only line boundary is the newline
RECURSIVE SplitLinesFrom(_, _)
SplitLinesFrom(text, p) ==
    IF p > Len(text) THEN <<>>
    ELSE <<SubSeq(text, p, NextBreak(text, p) - 1)>>
             \o SplitLinesFrom(text, NextBreak(text, p) + 1)

SplitLines(text) == SplitLinesFrom(text, 1)

\* '\n'.join(lines)
RECURSIVE JoinLines(_)
JoinLines(lines) ==
    IF lines = <<>> THEN <<>>
    ELSE IF Len(lines) = 1 THEN lines[1]
    ELSE lines[1] \o <<NL>> \o JoinLines(Tail(lines))

\* motd_parts with the link appended to the footer instead of put before it
PartsAssembledLinkLast(parts, link) ==
    LET body_text == SoftUnwrap(Get(parts.body)) \o <<NL>>
        foot_text == IF parts.foot = None THEN <<>> ELSE Get(parts.foot)
    IN  [head |-> parts.head,
         body |-> Some(body_text),
         foot |-> IF Truthy(link)
                  THEN Some(foot_text \o FootLinkText(Get(link)))
                  ELSE parts.foot]

\* lines 72-83: motd_parts after the body is unwrapped and the link injected
PartsAssembled(parts, link) ==
    LET body_text == SoftUnwrap(Get(parts.body)) \o <<NL>>
        foot_text == IF parts.foot = None THEN <<>> ELSE Get(parts.foot)
    IN  [head |-> parts.head,
         body |-> Some(body_text),
         foot |-> IF Truthy(link)
                  THEN Some(FootLinkText(Get(link)) \o foot_text)
                  ELSE parts.foot]

\* line 93: ''.join of the parts that are not empty, in the order of the dict
JoinParts(parts) ==
    (IF Truthy(parts.head) THEN Get(parts.head) ELSE <<>>)
        \o (IF Truthy(parts.body) THEN Get(parts.body) ELSE <<>>)
        \o (IF Truthy(parts.foot) THEN Get(parts.foot) ELSE <<>>)

\* default of the parameter match_width of wrap_ansicode
DefaultMatchWidth == 5

\* Inputs of accomodate_motd
MotdInit ==
    /\ motd_pc = "start"
    /\ head_file \in {None, Some(<<>>), Some(<<"h", NL>>)}
    /\ body_file \in
          LET BodyTokens == {<<"b">>, <<" ">>, <<NL>>, SGR}
          IN  {Concat(t) :
                  t \in UNION {[1..k -> BodyTokens] : k \in 0..MaxBody}}
    /\ foot_file \in {None, Some(<<>>), Some(<<"g", "g">>)}
    /\ foot_link \in {None, Some(<<>>), Some(<<"u", "u", "u">>)}
    /\ wrap_width \in 0..MaxMotdWidth
    /\ motd_parts = [head |-> None, body |-> None, foot |-> None]
    /\ motd_text = <<>>
    /\ motd_lines = <<>>
    /\ enum_n = 0
    /\ written = None

\* accomodate_motd is not called
MotdIdle ==
    /\ motd_pc = "idle"
    /\ head_file = None
    /\ body_file = <<>>
    /\ foot_file = None
    /\ foot_link = None
    /\ wrap_width = 0
    /\ motd_parts = [head |-> None, body |-> None, foot |-> None]
    /\ motd_text = <<>>
    /\ motd_lines = <<>>
    /\ enum_n = 0
    /\ written = None

\* lines 51-70: the files that were given are read
MotdRead ==
    /\ motd_pc = "start"
    /\ motd_parts' = [head |-> head_file, body |-> Some(body_file),
                      foot |-> foot_file]
    /\ motd_pc' = "read"
    /\ UNCHANGED <<head_file, body_file, foot_file, foot_link, wrap_width,
                   motd_text, motd_lines, enum_n, written>>
    /\ UNCHANGED <<wrapVars, pathVars, extVars>>

\* lines 66-67: reading a file fails, error_exit ends the program
MotdReadFails ==
    /\ motd_pc = "start"
    /\ motd_pc' = "exit"
    /\ UNCHANGED <<head_file, body_file, foot_file, foot_link, wrap_width,
                   motd_parts, motd_text, motd_lines, enum_n, written>>
    /\ UNCHANGED <<wrapVars, pathVars, extVars>>

\* lines 72-97: unwrap the body, inject the link, join the parts, open the
\* body file for writing (which empties it) and split the text into lines
MotdAssemble ==
    /\ motd_pc = "read"
    /\ motd_parts' = PartsAssembled(motd_parts, foot_link)
    /\ motd_text' = JoinParts(motd_parts')
    /\ motd_lines' = SplitLines(motd_text')
    /\ enum_n' = 0
    /\ written' = Some(<<>>)
    /\ motd_pc' = "wrap"
    /\ UNCHANGED <<head_file, body_file, foot_file, foot_link, wrap_width>>
    /\ UNCHANGED <<wrapVars, pathVars, extVars>>

\* lines 102-103: the body file cannot be opened, error_exit ends the program
MotdOpenFails ==
    /\ motd_pc = "read"
    /\ motd_parts' = PartsAssembled(motd_parts, foot_link)
    /\ motd_text' = JoinParts(motd_parts')
    /\ motd_pc' = "exit"
    /\ UNCHANGED <<head_file, body_file, foot_file, foot_link, wrap_width,
                   motd_lines, enum_n, written>>
    /\ UNCHANGED <<wrapVars, pathVars, extVars>>

\* lines 99-100: one iteration of the enumerate loop,
\* motd_lines[n : n + 1] = wrap_ansicode(line, wrap_width)
MotdWrapLine ==
    /\ motd_pc = "wrap"
    /\ enum_n < Len(motd_lines)
    /\ motd_lines' = SubSeq(motd_lines, 1, enum_n)
                         \o WrapAnsicode(motd_lines[enum_n + 1], wrap_width,
                                         DefaultMatchWidth)
                         \o SubSeq(motd_lines, enum_n + 2, Len(motd_lines))
    /\ enum_n' = enum_n + 1
    /\ UNCHANGED <<motd_pc, head_file, body_file, foot_file, foot_link,
                   wrap_width, motd_parts, motd_text, written>>
    /\ UNCHANGED <<wrapVars, pathVars, extVars>>

\* lines 101-108: the loop is over, the lines are written
MotdWrite ==
    /\ motd_pc = "wrap"
    /\ enum_n >= Len(motd_lines)
    /\ written' = Some(JoinLines(motd_lines) \o <<NL>>)
    /\ motd_pc' = "done"
    /\ UNCHANGED <<head_file, body_file, foot_file, foot_link, wrap_width,
                   motd_parts, motd_text, motd_lines, enum_n>>
    /\ UNCHANGED <<wrapVars, pathVars, extVars>>

\* ------------------------------------------------------------------------
\* filetools.direct_path(rel_path)

SEP == "/"

\* position of the first separator of p at or after i, Len(p) + 1 if none
NextSep(p, i) ==
    LET seps == {q \in i..Len(p) : p[q] = SEP}
    IN  IF seps = {} THEN Len(p) + 1
        ELSE CHOOSE q \in seps : \A r \in seps : q <= r

\* rel.split('/') from position i on
RECURSIVE SplitSep(_, _)
SplitSep(p, i) ==
    IF NextSep(p, i) > Len(p) THEN <<SubSeq(p, i, Len(p))>>
    ELSE <<SubSeq(p, i, NextSep(p, i) - 1)>> \o SplitSep(p, NextSep(p, i) + 1)

\* number of separators p starts with
RECURSIVE LeadingSeps(_)
LeadingSeps(p) ==
    IF p # <<>> /\ p[1] = SEP THEN 1 + LeadingSeps(Tail(p)) ELSE 0

\* the root pathlib finds: '' for a relative path, '//' for exactly two
\* leading slashes, '/' otherwise
PathRoot(p) ==
    IF LeadingSeps(p) = 0 THEN <<>>
    ELSE IF LeadingSeps(p) = 2 THEN <<SEP, SEP>>
    ELSE <<SEP>>

\* the components a path keeps: not empty and not '.'
KeptName(x) == x # <<>> /\ x # <<".">>

\* Path(p).parts: the root, if any, then the components
PathParts(p) ==
    LET rel == SubSeq(p, LeadingSeps(p) + 1, Len(p))
        names == SelectSeq(SplitSep(rel, 1), KeptName)
    IN  (IF PathRoot(p) = <<>> THEN <<>> ELSE <<PathRoot(p)>>) \o names

\* '/'.join(names)
RECURSIVE JoinSep(_)
JoinSep(names) ==
    IF names = <<>> THEN <<>>
    ELSE IF Len(names) = 1 THEN names[1]
    ELSE names[1] \o <<SEP>> \o JoinSep(Tail(names))

IsRoot(part) == part = <<SEP>> \/ part = <<SEP, SEP>>

\* str(Path(*parts)) for parts taken from the parts of one path
PathStr(parts) ==
    IF parts = <<>> THEN <<".">>
    ELSE IF IsRoot(parts[1]) THEN parts[1] \o JoinSep(Tail(parts))
    ELSE JoinSep(parts)

special_maps == {<<".", ".">>, <<".">>, <<SEP>>}

NotSpecial(part) == part \notin special_maps

\* lines 87-89: the parts that are not special
direct_path_parts(p) == SelectSeq(PathParts(p), NotSpecial)

\* the value direct_path returns
direct_path(p) == PathStr(direct_path_parts(p))

\* Inputs of direct_path: every string of at most MaxPathLen characters over
\* a name character, the dot and the separator, and the paths of the tests
TestPaths ==
    { <<".", ".", "/", ".", ".", "/", "t", "e", "s", "t", "/", "f", "i", "l", "e">>,
      <<".", "/", "t", "e", "s", "t", "/", "f", "i", "l", "e">>,
      <<"/", "t", "e", "s", "t">>,
      <<".", ".", "/", ".", "/", ".", ".", "/", "t", "e", "s", "t">>,
      <<"t", "e", "s", "t", "/", ".", ".", "/", "f", "i", "l", "e">>,
      <<"/", "t", "e", "s", "t", "/", ".", ".", "/", "f", "i", "l", "e">> }
PathInit ==
    /\ path_pc = "start"
    /\ rel_path \in
          LET PathChars == {"t", ".", SEP}
              ShortPaths ==
                  UNION {[1..k -> PathChars] : k \in 0..MaxPathLen}
          IN  ShortPaths \cup TestPaths
    /\ path_result = <<>>

\* direct_path is not called
PathIdle ==
    /\ path_pc = "idle"
    /\ rel_path = <<>>
    /\ path_result = <<>>

\* lines 80-93
DirectPath ==
    /\ path_pc = "start"
    /\ path_result' = direct_path(rel_path)
    /\ path_pc' = "done"
    /\ UNCHANGED rel_path
    /\ UNCHANGED <<wrapVars, motdVars, extVars>>

\* ------------------------------------------------------------------------
\* filetools.common_path_join(left_path, right_path)

\* index of the first occurrence of x in parts, counted from 0 (tuple.index)
FirstIndex(parts, x) ==
    (CHOOSE i \in DOMAIN parts :
        parts[i] = x /\ \A j \in DOMAIN parts : parts[j] = x => i <= j) - 1

\* line 120: the test names the bound method right_path.is_absolute and
\* does not call it; a method object is true whatever the path is
IsAbsolute(p) == TRUE

\* lines 115-116
left_parts(l) == PathParts(l)

\* lines 118-121
right_parts(r) ==
    IF IsAbsolute(r) THEN PyTail(PathParts(r), 1) ELSE PathParts(r)

\* line 123
common_dirs(l, r) ==
    {left_parts(l)[i] : i \in DOMAIN left_parts(l)}
        \cap {right_parts(r)[i] : i \in DOMAIN right_parts(r)}

\* lines 129-130: the common name with the greatest index in left_parts
junction_dir(l, r) ==
    CHOOSE d \in common_dirs(l, r) :
        \A e \in common_dirs(l, r) :
            FirstIndex(left_parts(l), e) <= FirstIndex(left_parts(l), d)

\* lines 133-139
joined_path(l, r) ==
    PyHead(left_parts(l), FirstIndex(left_parts(l), junction_dir(l, r)))
        \o PyTail(right_parts(r), FirstIndex(right_parts(r), junction_dir(l, r)))

\* the outcome of common_path_join: ValueError or the joined path as a string
common_path_join(l, r) ==
    IF common_dirs(l, r) = {} THEN [raised |-> TRUE, value |-> <<>>]
    ELSE [raised |-> FALSE, value |-> PathStr(joined_path(l, r))]

\* Inputs of common_path_join: every pair of strings of at most MaxJoinLen
\* characters over two name characters and the separator, and two cases of
\* the tests (left, right, reference)
TestJoinCases ==
    { << <<"c", "h", "e", "r", "r", "y", "/", "a", "p", "p", "l", "e", "/",
           "p", "e", "a", "r", "/", "o", "r", "a", "n", "g", "e">>,
         <<"b", "a", "n", "a", "n", "a", "/", "a", "p", "p", "l", "e", "/",
           "k", "i", "w", "i", "/", "p", "e", "a", "r", "/", "g", "r", "a",
           "p", "e", "/", "t", "e", "s", "t", ".", "r", "s", "t">>,
         <<"c", "h", "e", "r", "r", "y", "/", "a", "p", "p", "l", "e", "/",
           "p", "e", "a", "r", "/", "g", "r", "a", "p", "e", "/", "t", "e",
           "s", "t", ".", "r", "s", "t">> >>,
      << <<"a", "p", "p", "l", "e", "/", "p", "e", "a", "r">>,
         <<"a", "p", "p", "l", "e", "/", "p", "e", "a", "r", "/", "t", "e",
           "s", "t", ".", "r", "s", "t">>,
         <<"a", "p", "p", "l", "e", "/", "p", "e", "a", "r", "/", "t", "e",
           "s", "t", ".", "r", "s", "t">> >> }
JoinInit ==
    /\ join_pc = "start"
    /\ LET JoinChars == {"a", "b", SEP}
           JoinPaths == UNION {[1..k -> JoinChars] : k \in 0..MaxJoinLen}
           JoinInputs ==
               (JoinPaths \X JoinPaths)
                   \cup {<<c[1], c[2]>> : c \in TestJoinCases}
       IN  \E input \in JoinInputs :
               /\ left_path = input[1]
               /\ right_path = input[2]
    /\ join_result = [raised |-> FALSE, value |-> <<>>]

\* common_path_join is not called
JoinIdle ==
    /\ join_pc = "idle"
    /\ left_path = <<>>
    /\ right_path = <<>>
    /\ join_result = [raised |-> FALSE, value |-> <<>>]

\* lines 108-142
CommonPathJoin ==
    /\ join_pc = "start"
    /\ join_result' = common_path_join(left_path, right_path)
    /\ join_pc' = "done"
    /\ UNCHANGED <<left_path, right_path>>
    /\ UNCHANGED <<wrapVars, motdVars, pathVars, urlVars, walkVars, parVars>>

\* ------------------------------------------------------------------------
\* newsfeed.valid_url(url), with urllib.parse.urlsplit and urlunsplit

\* the characters of the model that str.lstrip removes in urlsplit
\* (_WHATWG_C0_CONTROL_OR_SPACE) and those it removes everywhere
\* (_UNSAFE_URL_BYTES_TO_REMOVE)
C0ControlOrSpace == {" ", "\t", "\n", "\r", "\f", ESC}
UnsafeUrlBytes == {"\t", "\r", "\n"}

\* str.lower() on the upper-case letters of the model
LowerCase == ("H" :> "h") @@ ("T" :> "t") @@ ("P" :> "p")

\* url.lstrip(_WHATWG_C0_CONTROL_OR_SPACE)
RECURSIVE UrlLstrip(_)
UrlLstrip(url) ==
    IF url # <<>> /\ url[1] \in C0ControlOrSpace THEN UrlLstrip(Tail(url))
    ELSE url

\* urlsplit(url): [raised, scheme, netloc, path, query, fragment]; raised
\* stands for ValueError("Invalid IPv6 URL").  The inputs hold no ']', so a
\* netloc never reaches the check of a bracketed host.
\* NetlocEnd is _splitnetloc(url, 2): the offset of the first of '/', '?',
\* '#' at or after offset 2, len(url) when there is none.
urlsplit(arg) ==
    LET IsSafeByte(c) == c \notin UnsafeUrlBytes
        ToLower(c) == IF c \in DOMAIN LowerCase THEN LowerCase[c] ELSE c
        AsciiAlpha == (Letters \ {"_"}) \cup DOMAIN LowerCase
        scheme_chars == AsciiAlpha \cup Digits \cup {"+", "-", "."}
        Has(t, c) == \E k \in DOMAIN t : t[k] = c
        NetlocEnd(url) ==
            LET delims ==
                    {k \in 2..(Len(url) - 1) : url[k + 1] \in {"/", "?", "#"}}
            IN  IF delims = {} THEN Len(url)
                ELSE CHOOSE k \in delims : \A j \in delims : k <= j
        \* url, query = url.split('?', 1)
        SplitQuery(scheme, netloc, fragment, url4, q) ==
            [ raised |-> \/ Has(netloc, "[") /\ ~Has(netloc, "]")
                         \/ Has(netloc, "]") /\ ~Has(netloc, "["),
              scheme |-> scheme, netloc |-> netloc,
              path |-> IF q >= 0 THEN PyHead(url4, q) ELSE url4,
              query |-> IF q >= 0 THEN PyTail(url4, q + 1) ELSE <<>>,
              fragment |-> fragment ]
        FindQuery(scheme, netloc, fragment, url4) ==
            SplitQuery(scheme, netloc, fragment, url4, PyFind(url4, <<"?">>))
        \* url, fragment = url.split('#', 1)
        SplitFragment(scheme, netloc, url3, f) ==
            FindQuery(scheme, netloc,
                      IF f >= 0 THEN PyTail(url3, f + 1) ELSE <<>>,
                      IF f >= 0 THEN PyHead(url3, f) ELSE url3)
        FindFragment(scheme, netloc, url3) ==
            SplitFragment(scheme, netloc, url3, PyFind(url3, <<"#">>))
        \* netloc, url = _splitnetloc(url, 2)
        SplitNetloc(scheme, url2, has_netloc, end) ==
            FindFragment(scheme,
                         IF has_netloc THEN PySlice(url2, 2, end) ELSE <<>>,
                         IF has_netloc THEN PyTail(url2, end) ELSE url2)
        FindNetloc(scheme, url2) ==
            SplitNetloc(scheme, url2, PyHead(url2, 2) = <<"/", "/">>,
                        NetlocEnd(url2))
        \* scheme, url = url[:i].lower(), url[i+1:]
        SplitScheme(url1, i, has_scheme) ==
            FindNetloc(IF has_scheme THEN [k \in 1..i |-> ToLower(url1[k])]
                       ELSE <<>>,
                       IF has_scheme THEN PyTail(url1, i + 1) ELSE url1)
        CheckScheme(url1, i) ==
            SplitScheme(url1, i,
                        /\ i > 0
                        /\ url1[1] \in AsciiAlpha
                        /\ \A k \in 1..i : url1[k] \in scheme_chars)
        FindScheme(url1) == CheckScheme(url1, PyFind(url1, <<":">>))
    IN  FindScheme(SelectSeq(UrlLstrip(arg), IsSafeByte))

\* urlunsplit((scheme, netloc, url, query, fragment)); uses_netloc holds
\* the schemes of urllib.parse.uses_netloc
urlunsplit(scheme, netloc, path, query, fragment) ==
    LET uses_netloc ==
            { <<>>, <<"f", "t", "p">>, <<"h", "t", "t", "p">>,
              <<"f", "i", "l", "e">>, <<"h", "t", "t", "p", "s">>,
              <<"s", "f", "t", "p">>, <<"g", "i", "t">>, <<"w", "s">>,
              <<"w", "s", "s">>, <<"n", "f", "s">>, <<"s", "v", "n">> }
        with_netloc ==
            \/ netloc # <<>>
            \/ scheme # <<>> /\ scheme \in uses_netloc
                             /\ PyHead(path, 2) # <<"/", "/">>
        url1 == IF with_netloc
                THEN <<"/", "/">> \o netloc
                     \o (IF path # <<>> /\ path[1] # "/" THEN <<"/">>
                         ELSE <<>>) \o path
                ELSE path
        url2 == IF scheme # <<>> THEN scheme \o <<":">> \o url1 ELSE url1
        url3 == IF query # <<>> THEN url2 \o <<"?">> \o query ELSE url2
    IN  IF fragment # <<>> THEN url3 \o <<"#">> \o fragment ELSE url3

\* SplitResult.geturl()
geturl(r) == urlunsplit(r.scheme, r.netloc, r.path, r.query, r.fragment)

\* the path is left empty
pathed_urlNoSlash(parsed) ==
    urlunsplit(parsed.scheme, parsed.netloc, <<>>, <<>>, <<>>)

\* line 57
pathed_url(parsed) == urlunsplit(parsed.scheme, parsed.netloc, <<"/">>, <<>>, <<>>)

\* lines 56-58: the parsed URL after its empty path is filled in
parsed_url(url) ==
    LET Filled(parsed) ==
            IF parsed.path = <<>> THEN urlsplit(pathed_url(parsed))
            ELSE parsed
    IN  Filled(urlsplit(url))

\* the outcome of valid_url: the exception that leaves it, "none" when it
\* returns, and the returned SplitResult
valid_url(url) ==
    LET NoUrl == [raised |-> FALSE, scheme |-> <<>>, netloc |-> <<>>,
                  path |-> <<>>, query |-> <<>>, fragment |-> <<>>]
        Outcome(first, parsed) ==
            IF first.raised
            THEN [error |-> "ArgumentTypeError", parsed |-> NoUrl]
            ELSE IF parsed.raised
            THEN [error |-> "ValueError", parsed |-> NoUrl]
            ELSE IF parsed.scheme # <<>> /\ parsed.netloc # <<>>
            THEN [error |-> "none", parsed |-> parsed]
            ELSE [error |-> "ArgumentTypeError", parsed |-> NoUrl]
    IN  Outcome(urlsplit(url), parsed_url(url))

\* Inputs of valid_url: a head that gives or withholds scheme and netloc,
\* followed by at most MaxUrlTail characters of path, query and fragment,
\* and the URLs of the tests
TestUrls ==
    { <<"h", "t", "t", "p", ":", "/", "/", "e", "x", "a", "m", "p", "l", "e",
        ".", "c", "o", "m", "/", "i", "n", "d", "e", "x", ".", "h", "t", "m",
        "l">>,
      <<"h", "t", "t", "p", ":", "/", "/", "e", "x", "a", "m", "p", "l", "e",
        ".", "c", "o", "m", "/">>,
      <<"h", "t", "t", "p", ":", "/", "/", "e", "x", "a", "m", "p", "l", "e",
        ".", "c", "o", "m">> }
UrlInit ==
    /\ url_pc = "start"
    /\ url_arg \in
          LET UrlHeads ==
                  { <<>>, <<"h", ":">>, <<"H", ":">>, <<"/", "/", "h">>,
                    <<"h", ":", "/", "/">>, <<"h", ":", "/", "/", "h">>,
                    <<"H", ":", "/", "/", "h">>,
                    <<" ", "h", ":", "/", "/", "h">>,
                    <<"h", ":", "/", "/", "h", "\n">>,
                    <<"h", ":", "/", "/", "[">>,
                    <<"w", "s", ":">>, <<"1", ":", "/", "/", "h">> }
              UrlTailChars == {"/", "h", "?", "#"}
              UrlTails ==
                  UNION {[1..k -> UrlTailChars] : k \in 0..MaxUrlTail}
          IN  {h \o t : h \in UrlHeads, t \in UrlTails} \cup TestUrls
    /\ url_result = [error |-> "none", parsed |-> urlsplit(<<>>)]

\* valid_url is not called
UrlIdle ==
    /\ url_pc = "idle"
    /\ url_arg = <<>>
    /\ url_result = [error |-> "none", parsed |-> urlsplit(<<>>)]

\* lines 43-64
ValidUrl ==
    /\ url_pc = "start"
    /\ url_result' = valid_url(url_arg)
    /\ url_pc' = "done"
    /\ UNCHANGED url_arg
    /\ UNCHANGED <<wrapVars, motdVars, pathVars, joinVars, walkVars, parVars>>

\* ------------------------------------------------------------------------
\* newspost.ANSICodeTranslator and the walk of ANSICodeWriter.translate

\* A node of the document tree: its class name, its children, the content
\* of a Text node, whether a reference has the attribute 'name', and the
\* attribute the translator prints (refuri of a reference, date of an
\* UpdateNode)
Node(kind, children) ==
    [kind |-> kind, children |-> children, text |-> <<>>, named |-> FALSE,
     attr |-> <<>>]
TextNode(t) ==
    [kind |-> "Text", children |-> <<>>, text |-> t, named |-> FALSE,
     attr |-> <<>>]

\* node.astext() of a Text node or of a text element
RECURSIVE ChildrenText(_, _)
AsText(node) ==
    IF node.kind = "Text" THEN node.text ELSE ChildrenText(node.children, 1)
ChildrenText(children, i) ==
    IF i > Len(children) THEN <<>>
    ELSE AsText(children[i]) \o ChildrenText(children, i + 1)

\* Node.walkabout(visitor): the visit of a node, the walk of its children
\* and its departure.  An event keeps what the handlers read of the node,
\* the class of its parent, its place in the tree (the child indexes that
\* lead to it) and the index of its departure, where the walk goes on when
\* the visit raises SkipNode.
RECURSIVE EventsOf(_, _, _, _), ChildEvents(_, _, _, _, _)
EventsOf(node, parent, path, base) ==
    LET inner == ChildEvents(node.children, 1, node.kind, path, base + 1)
        ev(op) == [op |-> op, kind |-> node.kind, text |-> AsText(node),
                   named |-> node.named, attr |-> node.attr,
                   parent |-> parent, path |-> path,
                   close |-> base + Len(inner) + 1]
    IN  <<ev("visit")>> \o inner \o <<ev("depart")>>
ChildEvents(children, i, kind, path, base) ==
    IF i > Len(children) THEN <<>>
    ELSE LET first == EventsOf(children[i], kind, Append(path, i), base)
         IN  first \o ChildEvents(children, i + 1, kind, path,
                                  base + Len(first))

\* line 100
Walkabout(doc) == EventsOf(doc, "", <<>>, 1)

\* node.first_child_matching_class(cls): the index of the first child of
\* that class, None when there is none
first_child_matching_class(node, kind) ==
    LET hits == {i \in DOMAIN node.children : node.children[i].kind = kind}
    IN  IF hits = {} THEN None
        ELSE Some((CHOOSE i \in hits : \A j \in hits : i <= j) - 1)

\* the truth value of an index that can be None: None and 0 are false
TruthyIndex(o) == o # None /\ Get(o) # 0

\* lines 137-149: the place of the main paragraph; found is FALSE where the
\* constructor calls error_exit
MainParagraph(doc) ==
    LET first_section_index == first_child_matching_class(doc, "section")
        first_section == doc.children[Get(first_section_index) + 1]
        first_paragraph_index ==
            first_child_matching_class(first_section, "paragraph")
    IN  IF ~TruthyIndex(first_section_index)
        THEN [found |-> FALSE, path |-> <<>>]
        ELSE IF ~TruthyIndex(first_paragraph_index)
        THEN [found |-> FALSE, path |-> <<>>]
        ELSE [found |-> TRUE,
              path |-> <<Get(first_section_index) + 1,
                         Get(first_paragraph_index) + 1>>]

\* the backquote character
BACKQUOTE == "BACKQUOTE"

\* lines 152-160, 162
defs ==
    [ emphasis |-> << <<ESC, "[", "4", "m">>, <<ESC, "[", "2", "4", "m">> >>,
      strong |-> << <<ESC, "[", "1", "m">>, <<ESC, "[", "2", "2", "m">> >>,
      literal |-> << <<ESC, "[", "7", "m", BACKQUOTE>>,
                     <<BACKQUOTE, ESC, "[", "2", "7", "m">> >>,
      warning |-> << <<ESC, "[", "1", ";", "3", "1", ";", "7", "m">>,
                     <<ESC, "[", "0", ";", "2", "7", "m">> >>,
      info |-> << <<ESC, "[", "1", ";", "3", "2", ";", "7", "m">>,
                  <<ESC, "[", "0", ";", "2", "7", "m">> >>,
      update |-> << <<ESC, "[", "7", "m">>, <<ESC, "[", "2", "7", "m">> >>,
      problematic |-> << <<NL, "!", "!", "!", NL>>,
                         <<NL, "!", "!", "!", NL>> >> ]
WarningBadge == <<"W", "a", "r", "n", "i", "n", "g">>
InfoBadge == <<"I", "n", "f", "o">>

\* lines 226-228 and 233-235: the codes of the badges the text contains
BadgeCodes(text, k) ==
    (IF PyFind(text, WarningBadge) >= 0 THEN <<defs.warning[k]>> ELSE <<>>)
        \o (IF PyFind(text, InfoBadge) >= 0 THEN <<defs.info[k]>> ELSE <<>>)

\* n * '#'
RECURSIVE Hashes(_)
Hashes(n) == IF n <= 0 THEN <<>> ELSE <<"#">> \o Hashes(n - 1)

\* lines 169-172
ensure_eol(b) ==
    IF b # <<>> /\ b[Len(b)][Len(b[Len(b)])] # NL THEN Append(b, <<NL>>)
    ELSE b

\* the event the walk has reached
Dispatch(op, kind) ==
    /\ walk_pc = "walk"
    /\ pos <= Len(events)
    /\ events[pos].op = op
    /\ events[pos].kind = kind

\* a handler returns (the walk goes on with the next event) or raises
\* SkipNode (the walk goes on after the departure of the node)
Returns == pos' = pos + 1
SkipNode == pos' = events[pos].close + 1

Keep ==
    /\ UNCHANGED <<walk_pc, document, briefing, events,
                   first_main_paragraph, output>>
    /\ UNCHANGED <<wrapVars, motdVars, pathVars, joinVars, urlVars, parVars>>

\* a handler that appends to body unless the limit is passed
AppendsToBody(items) ==
    /\ body' = IF beyond_limit THEN body ELSE body \o items
    /\ UNCHANGED <<head, section_level, beyond_limit>>
    /\ Returns
    /\ Keep

\* a handler that changes nothing
Passes ==
    /\ UNCHANGED <<head, body, section_level, beyond_limit>>
    /\ Returns
    /\ Keep

\* lines 112-162
TranslatorInit ==
    /\ walk_pc = "init"
    /\ IF briefing /\ ~MainParagraph(document).found
       THEN /\ walk_pc' = "exit"
            /\ first_main_paragraph' = None
       ELSE /\ walk_pc' = "walk"
            /\ first_main_paragraph' =
                   IF briefing THEN Some(MainParagraph(document).path)
                   ELSE None
    /\ head' = <<>>
    /\ body' = <<>>
    /\ section_level' = 0
    /\ beyond_limit' = FALSE
    /\ UNCHANGED <<document, briefing, events, pos, output>>
    /\ UNCHANGED <<wrapVars, motdVars, pathVars, joinVars, urlVars, parVars>>

\* lines 175-178
visit_Text ==
    /\ Dispatch("visit", "Text")
    /\ AppendsToBody(<<events[pos].text>>)

\* lines 180-181
depart_Text == Dispatch("depart", "Text") /\ Passes

\* lines 183-185
visit_emphasis ==
    /\ Dispatch("visit", "emphasis")
    /\ AppendsToBody(<<defs.emphasis[1]>>)

\* lines 187-190
depart_emphasis ==
    /\ Dispatch("depart", "emphasis")
    /\ AppendsToBody(<<defs.emphasis[2]>>)

\* lines 192-194
visit_strong ==
    /\ Dispatch("visit", "strong")
    /\ AppendsToBody(<<defs.strong[1]>>)

\* lines 196-199
depart_strong ==
    /\ Dispatch("depart", "strong")
    /\ AppendsToBody(<<defs.strong[2]>>)

\* lines 201-203
visit_literal ==
    /\ Dispatch("visit", "literal")
    /\ AppendsToBody(<<defs.literal[1]>>)

\* lines 205-208
depart_literal ==
    /\ Dispatch("depart", "literal")
    /\ AppendsToBody(<<defs.literal[2]>>)

\* lines 210-214
visit_reference ==
    /\ Dispatch("visit", "reference")
    /\ AppendsToBody(IF events[pos].named THEN << <<"[">> >> ELSE <<>>)

\* lines 216-221
depart_reference ==
    /\ Dispatch("depart", "reference")
    /\ AppendsToBody(IF events[pos].named
                     THEN << <<"]", "(">> \o events[pos].attr \o <<")">> >>
                     ELSE <<>>)

\* lines 223-228
visit_inline ==
    /\ Dispatch("visit", "inline")
    /\ AppendsToBody(BadgeCodes(events[pos].text, 1))

\* lines 230-236
depart_inline ==
    /\ Dispatch("depart", "inline")
    /\ AppendsToBody(BadgeCodes(events[pos].text, 2))

\* lines 238-240
visit_problematic ==
    /\ Dispatch("visit", "problematic")
    /\ AppendsToBody(<<defs.problematic[1]>>)

\* lines 242-244
depart_problematic ==
    /\ Dispatch("depart", "problematic")
    /\ AppendsToBody(<<defs.problematic[2]>>)

\* lines 247-251
visit_paragraph ==
    /\ Dispatch("visit", "paragraph")
    /\ body' = IF ~beyond_limit /\ events[pos].parent # "list_item"
               THEN Append(ensure_eol(body), <<NL>>)
               ELSE body
    /\ UNCHANGED <<head, section_level, beyond_limit>>
    /\ Returns
    /\ Keep

\* the limit is set at the end of every paragraph
depart_paragraphAnyParagraph ==
    /\ Dispatch("depart", "paragraph")
    /\ body' = IF beyond_limit THEN body ELSE Append(body, <<NL>>)
    /\ beyond_limit' = (beyond_limit \/ briefing)
    /\ UNCHANGED <<head, section_level>>
    /\ Returns
    /\ Keep

\* lines 253-259
depart_paragraph ==
    /\ Dispatch("depart", "paragraph")
    /\ body' = IF beyond_limit THEN body ELSE Append(body, <<NL>>)
    /\ beyond_limit' =
           \/ beyond_limit
           \/ briefing /\ Some(events[pos].path) = first_main_paragraph
    /\ UNCHANGED <<head, section_level>>
    /\ Returns
    /\ Keep

\* lines 261-263
visit_bullet_list ==
    /\ Dispatch("visit", "bullet_list")
    /\ AppendsToBody(<< <<NL>> >>)

\* lines 265-266
depart_bullet_list == Dispatch("depart", "bullet_list") /\ Passes

\* lines 268-270
visit_enumerated_list ==
    /\ Dispatch("visit", "enumerated_list")
    /\ AppendsToBody(<< <<NL>> >>)

\* lines 272-273
depart_enumerated_list == Dispatch("depart", "enumerated_list") /\ Passes

\* lines 275-278
visit_list_item ==
    /\ Dispatch("visit", "list_item")
    /\ AppendsToBody(<< <<" ", "*", " ">> >>)

\* lines 280-281
\* the level is counted only within the limit of a briefing
visit_sectionWithinLimit ==
    /\ Dispatch("visit", "section")
    /\ section_level' = IF beyond_limit THEN section_level
                        ELSE section_level + 1
    /\ UNCHANGED <<head, body, beyond_limit>>
    /\ Returns
    /\ Keep

visit_section ==
    /\ Dispatch("visit", "section")
    /\ section_level' = section_level + 1
    /\ UNCHANGED <<head, body, beyond_limit>>
    /\ Returns
    /\ Keep

\* lines 283-284
depart_section ==
    /\ Dispatch("depart", "section")
    /\ section_level' = section_level - 1
    /\ UNCHANGED <<head, body, beyond_limit>>
    /\ Returns
    /\ Keep

\* lines 286-298
visit_title ==
    /\ Dispatch("visit", "title")
    /\ IF beyond_limit THEN UNCHANGED <<head, body>>
       ELSE IF section_level = 0
       THEN /\ head' = Append(head, <<NL>> \o defs.strong[1] \o <<"#", " ">>)
            /\ body' = ensure_eol(body)
       ELSE /\ body' = Append(ensure_eol(body),
                              <<NL>> \o defs.strong[1]
                                  \o Hashes(section_level) \o <<" ">>)
            /\ UNCHANGED head
    /\ UNCHANGED <<section_level, beyond_limit>>
    /\ Returns
    /\ Keep

\* lines 300-303
depart_title ==
    /\ Dispatch("depart", "title")
    /\ AppendsToBody(<<defs.strong[2] \o <<NL>> >>)

\* lines 305-312
visit_subtitle ==
    /\ Dispatch("visit", "subtitle")
    /\ body' = IF ~beyond_limit /\ events[pos].parent = "document"
               THEN Append(body, Hashes(section_level + 1) \o <<" ">>)
               ELSE body
    /\ IF ~beyond_limit /\ events[pos].parent # "document" THEN SkipNode
       ELSE Returns
    /\ UNCHANGED <<head, section_level, beyond_limit>>
    /\ Keep

\* lines 314-323
visit_UpdateNode ==
    /\ Dispatch("visit", "UpdateNode")
    /\ AppendsToBody(<< <<NL>> \o defs.update[1]
                        \o <<" ", "U", "p", "d", "a", "t", "e", " ">>
                        \o events[pos].attr \o <<" ">> \o defs.update[2] >>)

\* lines 325-329
depart_UpdateNode ==
    /\ Dispatch("depart", "UpdateNode")
    /\ AppendsToBody(<< <<NL>> >>)

\* lines 331-335
visit_transition ==
    /\ Dispatch("visit", "transition")
    /\ body' = IF beyond_limit THEN body
               ELSE Append(body, <<NL, "-", "-", "-", NL, NL>>)
    /\ IF beyond_limit THEN Returns ELSE SkipNode
    /\ UNCHANGED <<head, section_level, beyond_limit>>
    /\ Keep

\* lines 338-340
visit_docinfo ==
    /\ Dispatch("visit", "docinfo")
    /\ UNCHANGED <<head, body, section_level, beyond_limit>>
    /\ SkipNode
    /\ Keep

\* lines 342-344
visit_field_list ==
    /\ Dispatch("visit", "field_list")
    /\ UNCHANGED <<head, body, section_level, beyond_limit>>
    /\ SkipNode
    /\ Keep

\* lines 346-348
visit_system_message == Dispatch("visit", "system_message") /\ Passes

\* lines 350-352
depart_system_message == Dispatch("depart", "system_message") /\ Passes

\* lines 362-364: the classes without a visit method
unknown_visit == Dispatch("visit", "document") /\ Passes

\* lines 366-368: the classes without a departure method
unknown_departure ==
    /\ \E kind \in {"document", "list_item", "subtitle", "transition"} :
          Dispatch("depart", kind)
    /\ Passes

\* lines 101, 165-167
astext ==
    /\ walk_pc = "walk"
    /\ pos > Len(events)
    /\ output' = Concat(head \o body)
    /\ walk_pc' = "done"
    /\ UNCHANGED <<document, briefing, events, pos, head, body,
                   section_level, beyond_limit, first_main_paragraph>>
    /\ UNCHANGED <<wrapVars, motdVars, pathVars, joinVars, urlVars, parVars>>

\* The documents of the model.  Paragraphs hold a text; the rich paragraph
\* holds every inline element the translator knows.
\* Blocks is what a section holds after its title, LaterSections are the
\* sections that follow the first one, Preambles is what a document holds
\* before its first section.
Documents ==
    LET PlainText == TextNode(<<"t">>)
        Para == Node("paragraph", <<PlainText>>)
        NamedReference ==
            [Node("reference", <<PlainText>>) EXCEPT !.named = TRUE, !.attr = <<"u">>]
        RichPara ==
            Node("paragraph",
                 << PlainText,
                    Node("emphasis", <<PlainText>>),
                    Node("strong", <<PlainText>>),
                    Node("literal", <<PlainText>>),
                    NamedReference,
                    Node("reference", <<PlainText>>),
                    Node("inline", <<TextNode(WarningBadge)>>),
                    Node("inline", <<TextNode(InfoBadge)>>),
                    Node("inline", <<PlainText>>),
                    Node("problematic", <<PlainText>>) >>)
        Title == Node("title", <<PlainText>>)
        Subtitle == Node("subtitle", <<PlainText>>)
        Transition == Node("transition", <<>>)
        ListItem == Node("list_item", <<Para>>)
        BulletList == Node("bullet_list", <<ListItem, ListItem>>)
        EnumeratedList == Node("enumerated_list", <<ListItem>>)
        SystemMessage == Node("system_message", <<Para>>)
        UpdateBlock ==
            [Node("UpdateNode",
                  <<RichPara, EnumeratedList, Transition, SystemMessage,
                    Subtitle>>)
                EXCEPT !.attr = <<"d">>]
        SubSection == Node("section", <<Title, Para, BulletList>>)
        Docinfo == Node("docinfo", <<Node("field", <<PlainText>>)>>)
        FieldList == Node("field_list", <<Node("field", <<PlainText>>)>>)
        Blocks == {Para, UpdateBlock, SubSection}
        BlockSeqs == UNION {[1..k -> Blocks] : k \in 0..MaxBlocks}
        FirstSections == {Node("section", <<Title>> \o b) : b \in BlockSeqs}
        LaterSections == {Node("section", <<Title, UpdateBlock, Para>>)}
        LaterSeqs == UNION {[1..k -> LaterSections] : k \in 0..MaxLater}
        Preambles ==
            {<<>>, <<Title>>, <<Title, Subtitle>>, <<Docinfo>>, <<FieldList>>,
             <<Title, Para>>}
    IN  {Node("document", p) : p \in Preambles}
            \cup {Node("document", p \o <<s>> \o l) :
                    p \in Preambles, s \in FirstSections, l \in LaterSeqs}

WalkInit ==
    /\ walk_pc = "init"
    /\ document \in Documents
    /\ briefing \in BOOLEAN
    /\ events = Walkabout(document)
    /\ pos = 1
    /\ head = <<>>
    /\ body = <<>>
    /\ section_level = 0
    /\ beyond_limit = FALSE
    /\ first_main_paragraph = None
    /\ output = <<>>

\* no translator is built
WalkIdle ==
    /\ walk_pc = "idle"
    /\ document = Node("document", <<>>)
    /\ briefing = FALSE
    /\ events = <<>>
    /\ pos = 1
    /\ head = <<>>
    /\ body = <<>>
    /\ section_level = 0
    /\ beyond_limit = FALSE
    /\ first_main_paragraph = None
    /\ output = <<>>

\* ------------------------------------------------------------------------
\* wrap_ansicode called while another invocation is in progress: each
\* invocation has its own local variables, the logger of the module is the
\* one object they share

Invocations == {1, 2}

\* the local variables of an invocation that has just been called
Frame(in) ==
    [pc |-> "start", line_arg |-> in[1], column_width |-> in[2],
     match_width |-> in[3], ansistr |-> in[1], clearstr_wrapped |-> <<>>,
     idx |-> 0, ansicodes |-> 0, ansistr_wrapped |-> <<>>]

\* the counter is one variable of the module, here that of invocation 1
ansicodesShared(fs, t) == fs[1].ansicodes

\* line 128, 152: the counter ansicodes is a local variable
ansicodesOf(fs, t) == fs[t].ansicodes

\* lines 119-129
ParBegin(t) ==
    LET f == frames[t]
    IN  /\ f.pc = "start"
        /\ NeedsWrap(f.ansistr, f.column_width)
        /\ frames' =
             [frames EXCEPT ![t] =
                [f EXCEPT
                   !.clearstr_wrapped =
                       TextWrap(StripAnsi(f.ansistr), f.column_width),
                   !.ansicodes = Len(f.ansistr) - Len(StripAnsi(f.ansistr)),
                   !.pc = "loop"]]
        /\ shared_log' = Append(shared_log, "debug")
        /\ UNCHANGED <<wrapVars, motdVars, pathVars, joinVars, urlVars,
                       walkVars>>

\* lines 157-160
ParPassThrough(t) ==
    LET f == frames[t]
    IN  /\ f.pc = "start"
        /\ ~NeedsWrap(f.ansistr, f.column_width)
        /\ frames' =
             [frames EXCEPT ![t] =
                [f EXCEPT !.ansistr_wrapped = <<f.ansistr>>, !.pc = "done"]]
        /\ UNCHANGED shared_log
        /\ UNCHANGED <<wrapVars, motdVars, pathVars, joinVars, urlVars,
                       walkVars>>

\* lines 133-152
ParIterate(t) ==
    LET f == frames[t]
        line == f.clearstr_wrapped[f.idx + 1]
        codes == ansicodesOf(frames, t)
        hard == MatchStart(f.ansistr, line, f.column_width, f.match_width,
                           codes) < 0
        zone == MatchZone(f.ansistr, f.column_width, f.match_width, codes)
    IN  /\ f.pc = "loop"
        /\ f.idx < Len(f.clearstr_wrapped)
        /\ frames' =
             [frames EXCEPT ![t] =
                [f EXCEPT
                   !.ansistr_wrapped =
                       Append(f.ansistr_wrapped,
                              Leftstr(f.ansistr, line, f.column_width,
                                      f.match_width, codes)),
                   !.ansistr = Rightstr(f.ansistr, line, f.column_width,
                                        f.match_width, codes),
                   !.ansicodes = NextAnsicodes(f.ansistr, line, f.column_width,
                                               f.match_width, codes),
                   !.idx = f.idx + 1]]
        /\ shared_log' =
             IF hard
             THEN Append(shared_log, IF zone # <<>> THEN "warning" ELSE "debug")
             ELSE shared_log
        /\ UNCHANGED <<wrapVars, motdVars, pathVars, joinVars, urlVars,
                       walkVars>>

\* lines 154-160
ParEnd(t) ==
    LET f == frames[t]
    IN  /\ f.pc = "loop"
        /\ f.idx = Len(f.clearstr_wrapped)
        /\ frames' = [frames EXCEPT ![t] = [f EXCEPT !.pc = "done"]]
        /\ shared_log' = Append(shared_log, "debug")
        /\ UNCHANGED <<wrapVars, motdVars, pathVars, joinVars, urlVars,
                       walkVars>>

\* Inputs: invocation 1 gets a line of at most MaxParTokens tokens,
\* invocation 2 one of a few lines
ParInit ==
    LET ParLines ==
            {Concat(t) :
                t \in UNION {[1..k -> Tokens] : k \in 0..MaxParTokens}}
        ParInputs == ParLines \X {1, 2} \X {0, 1}
        ParOthers ==
            { <<SGR \o <<"a", " ", "a">>, 1, 1>>,
              <<<<"a", "-", " ", "a">> \o SGR, 2, 0>>,
              <<<<"a">>, 1, 1>> }
    IN  /\ \E in1 \in ParInputs, in2 \in ParOthers :
              frames = [t \in Invocations |->
                           IF t = 1 THEN Frame(in1) ELSE Frame(in2)]
        /\ shared_log = <<>>

\* no invocations in progress at the same time
ParIdle ==
    /\ frames = <<>>
    /\ shared_log = <<>>

\* no operation modelled after direct_path is called
ExtIdle == JoinIdle /\ UrlIdle /\ WalkIdle /\ ParIdle

\* ------------------------------------------------------------------------
\* Specifications

\* wrap_ansicode
Init == WrapInit /\ MotdIdle /\ PathIdle /\ ExtIdle
Next == WrapBegin \/ PassThrough \/ Iterate \/ WrapEnd
Spec == Init /\ [][Next]_vars

\* accomodate_motd
MotdNext ==
    \/ MotdRead \/ MotdReadFails \/ MotdAssemble \/ MotdOpenFails
    \/ MotdWrapLine \/ MotdWrite
InitMotd == WrapIdle /\ MotdInit /\ PathIdle /\ ExtIdle
SpecMotd == InitMotd /\ [][MotdNext]_vars

\* direct_path
PathNext == DirectPath
InitPath == WrapIdle /\ MotdIdle /\ PathInit /\ ExtIdle
SpecPath == InitPath /\ [][PathNext]_vars

\* common_path_join
JoinNext == CommonPathJoin
InitJoin ==
    /\ WrapIdle /\ MotdIdle /\ PathIdle
    /\ JoinInit /\ UrlIdle /\ WalkIdle /\ ParIdle
SpecJoin == InitJoin /\ [][JoinNext]_vars

\* valid_url
UrlNext == ValidUrl
InitUrl ==
    /\ WrapIdle /\ MotdIdle /\ PathIdle
    /\ JoinIdle /\ UrlInit /\ WalkIdle /\ ParIdle
SpecUrl == InitUrl /\ [][UrlNext]_vars

\* ANSICodeTranslator
WalkNext ==
    \/ TranslatorInit
    \/ visit_Text \/ depart_Text
    \/ visit_emphasis \/ depart_emphasis
    \/ visit_strong \/ depart_strong
    \/ visit_literal \/ depart_literal
    \/ visit_reference \/ depart_reference
    \/ visit_inline \/ depart_inline
    \/ visit_problematic \/ depart_problematic
    \/ visit_paragraph \/ depart_paragraph
    \/ visit_bullet_list \/ depart_bullet_list
    \/ visit_enumerated_list \/ depart_enumerated_list
    \/ visit_list_item
    \/ visit_section \/ depart_section
    \/ visit_title \/ depart_title
    \/ visit_subtitle
    \/ visit_UpdateNode \/ depart_UpdateNode
    \/ visit_transition
    \/ visit_docinfo \/ visit_field_list
    \/ visit_system_message \/ depart_system_message
    \/ unknown_visit \/ unknown_departure
    \/ astext
InitWalk ==
    /\ WrapIdle /\ MotdIdle /\ PathIdle
    /\ JoinIdle /\ UrlIdle /\ WalkInit /\ ParIdle
SpecWalk == InitWalk /\ [][WalkNext]_vars

\* wrap_ansicode, two invocations
ParNext ==
    \E t \in Invocations :
        ParBegin(t) \/ ParPassThrough(t) \/ ParIterate(t) \/ ParEnd(t)
InitPar ==
    /\ WrapIdle /\ MotdIdle /\ PathIdle
    /\ JoinIdle /\ UrlIdle /\ WalkIdle /\ ParInit
SpecPar == InitPar /\ [][ParNext]_vars

\* ------------------------------------------------------------------------
\* Vocabulary of the properties of wrap_ansicode

Range(f) == {f[i] : i \in DOMAIN f}

\* the call wrapped the line (it took the branch of line 121)
Wrapped == NeedsWrap(line_arg, column_width)

\* the visible text of each returned line
VisibleOf(lines) == [i \in 1..Len(lines) |-> StripAnsi(lines[i])]

\* a word: non-empty, without whitespace
IsWord(v) == v # <<>> /\ \A i \in 1..Len(v) : v[i] \notin Whitespace

RECURSIVE NonWsRunEnd(_, _)
NonWsRunEnd(s, p) ==
    IF p <= Len(s) /\ s[p] \notin Whitespace THEN NonWsRunEnd(s, p + 1) ELSE p

\* the maximal runs of non-whitespace characters of v, in order
RECURSIVE WordsFrom(_, _)
WordsFrom(v, p) ==
    LET b == WsRunEnd(v, p)
    IN  IF b > Len(v) THEN <<>>
        ELSE <<SubSeq(v, b, NonWsRunEnd(v, b) - 1)>>
                 \o WordsFrom(v, NonWsRunEnd(v, b))

Words(v) == WordsFrom(v, 1)

RECURSIVE WordsOfLines(_)
WordsOfLines(lines) ==
    IF lines = <<>> THEN <<>>
    ELSE Words(StripAnsi(lines[1])) \o WordsOfLines(Tail(lines))

\* the escape sequences of s, in order
RECURSIVE EscapesFrom(_, _)
EscapesFrom(s, p) ==
    LET q == NextEscape(s, p)
    IN  IF q > Len(s) THEN <<>>
        ELSE <<SubSeq(s, q, q + EscapeLenAt(s, q) - 1)>>
                 \o EscapesFrom(s, q + EscapeLenAt(s, q))

EscapeSeqs(s) == EscapesFrom(s, 1)

\* a cut at 0-based offset k falls strictly inside an escape sequence of s
InsideEscape(s, k) ==
    \E p \in 1..Len(s) :
        EscapeLenAt(s, p) > 0 /\ p - 1 < k /\ k < p - 1 + EscapeLenAt(s, p)

\* every ESC of s starts a complete escape sequence
CompleteEscapes(s) == \A p \in 1..Len(s) : s[p] = ESC => EscapeLenAt(s, p) > 0

\* position i of s lies inside an escape sequence
Covered(s, i) ==
    \E p \in 1..i : EscapeLenAt(s, p) > 0 /\ i < p + EscapeLenAt(s, p)

\* an escape sequence of s ends right before position p
EscapeEndsBefore(s, p) ==
    {q \in 1..(p - 1) : EscapeLenAt(s, q) > 0 /\ q + EscapeLenAt(s, q) = p}

\* start of the run of escape sequences that immediately precedes position p
RECURSIVE RunStart(_, _)
RunStart(s, p) ==
    IF EscapeEndsBefore(s, p) = {} THEN p
    ELSE RunStart(s, CHOOSE q \in EscapeEndsBefore(s, p) : TRUE)

\* the elements of a finite set of numbers in increasing order
SortedSeq(S) ==
    [j \in 1..Cardinality(S) |->
        CHOOSE i \in S : Cardinality({k \in S : k <= i}) = j]

\* the non-whitespace visible characters of s, each with the run of escape
\* sequences that immediately precedes it
Units(s) ==
    LET at == SortedSeq({p \in 1..Len(s) :
                            ~Covered(s, p) /\ s[p] \notin Whitespace})
    IN  [j \in 1..Len(at) |->
            <<SubSeq(s, RunStart(s, at[j]), at[j] - 1), s[at[j]]>>]

\* number of non-whitespace characters of the first n visible segments
RECURSIVE NonWsBefore(_, _)
NonWsBefore(segs, n) ==
    IF n = 0 THEN 0
    ELSE NonWsBefore(segs, n - 1)
             + Cardinality({j \in 1..Len(segs[n]) : segs[n][j] \notin Whitespace})

\* ------------------------------------------------------------------------
\* Properties of wrap_ansicode

\* C1 (width bound): when wrap_ansicode has returned for a positive
\* column_width, every returned line has at most column_width visible
\* characters, unless its visible text is one single word.
C1_WidthBound ==
    (pc = "done" /\ column_width > 0) =>
        \A i \in 1..Len(ansistr_wrapped) :
            LET v == StripAnsi(ansistr_wrapped[i])
            IN  Len(v) <= column_width \/ IsWord(v)

\* C2 (content preservation): the visible texts of the returned lines,
\* concatenated, are exactly the visible text of the input line.
C2_ContentPreserved ==
    pc = "done" =>
        Concat(VisibleOf(ansistr_wrapped)) = StripAnsi(line_arg)

\* C3 (escape preservation): the escape sequences of the concatenated
\* returned lines are those of the input line, in number and order.
C3_EscapesPreserved ==
    pc = "done" =>
        EscapeSeqs(Concat(ansistr_wrapped)) = EscapeSeqs(line_arg)

\* C4 (no cut inside an escape sequence): the cut the loop is about to make
\* in the remaining escaped text never falls inside an escape sequence, and
\* every returned line holds complete escape sequences only.
C4_NoCutInsideEscape ==
    /\ (pc = "loop" /\ idx < Len(clearstr_wrapped)) =>
          ~InsideEscape(ansistr,
                        SliceIndex(Cutpoint(ansistr, clearstr_wrapped[idx + 1],
                                            column_width, match_width, ansicodes),
                                   Len(ansistr)))
    /\ \A i \in 1..Len(ansistr_wrapped) : CompleteEscapes(ansistr_wrapped[i])

\* C5 (words are not split): the visible words of the returned lines, taken
\* line after line, are the visible words of the input line; no word is cut
\* in two and no character of a word is removed.
C5_WordsIntact ==
    pc = "done" =>
        WordsOfLines(ansistr_wrapped) = Words(StripAnsi(line_arg))

\* C6 (pass-through): when column_width <= 0 or the visible length of the
\* line is at most column_width, the result is the one-element list holding
\* the line unchanged.
C6_PassThrough ==
    (pc = "done"
        /\ (column_width <= 0 \/ Len(StripAnsi(line_arg)) <= column_width)) =>
        ansistr_wrapped = <<line_arg>>

\* a line made of escape sequences only, passed through at a positive width
C6_Witness ==
    /\ pc = "done"
    /\ column_width > 0
    /\ line_arg # <<>>
    /\ StripAnsi(line_arg) = <<>>
    /\ ansistr_wrapped = <<line_arg>>

\* C7 (totality): no exception leaves wrap_ansicode, the returned list is
\* never empty, and a wrapped call returns one line per visible segment,
\* also after an anchor match has failed.
C7_Totality ==
    /\ pc # "raised"
    /\ pc = "done" => Len(ansistr_wrapped) >= 1
    /\ (pc = "done" /\ Wrapped) => Len(ansistr_wrapped) = Len(clearstr_wrapped)

\* a call that made a hard cut (logged as a warning) before its last segment
\* and went on to return
C7_Witness ==
    /\ pc = "done"
    /\ Len(log) >= 2
    /\ log[2] = "warning"
    /\ Len(ansistr_wrapped) >= 2

\* C8 (escape codes stay attached): in a wrapped result the returned line of
\* each visible segment holds the non-whitespace characters of that segment,
\* each one preceded by the escape sequences that immediately precede it in
\* the input line.
C8_EscapesAttached ==
    (pc = "done" /\ Wrapped) =>
        \A i \in 1..Len(clearstr_wrapped) :
            /\ i <= Len(ansistr_wrapped)
            /\ Units(ansistr_wrapped[i]) =
                   SubSeq(Units(line_arg),
                          NonWsBefore(clearstr_wrapped, i - 1) + 1,
                          NonWsBefore(clearstr_wrapped, i))

\* C8, the documented scenario: several lines of at most 20 visible
\* characters, the first one starting with ESC[1m hello ESC[22m.
C8_Scenario ==
    (pc = "done" /\ line_arg = ScenarioLine) =>
        /\ Len(ansistr_wrapped) > 1
        /\ \A i \in 1..Len(ansistr_wrapped) :
               Len(StripAnsi(ansistr_wrapped[i])) <= Scenario[2]
        /\ PyHead(ansistr_wrapped[1], 14) =
               <<ESC, "[", "1", "m", "h", "e", "l", "l", "o",
                 ESC, "[", "2", "2", "m">>

\* the loop is about to work on the segment of index idx
AtSegment == pc = "loop" /\ idx < Len(clearstr_wrapped)

\* the step taken is an iteration of the loop
IterationStep == AtSegment /\ idx' = idx + 1

\* the anchor of the current segment is not in the search zone
NoMatch ==
    MatchStart(ansistr, clearstr_wrapped[idx + 1], column_width, match_width,
               ansicodes) < 0

\* t is what is left of s once its first characters are removed
IsSuffix(t, s) ==
    Len(t) <= Len(s) /\ t = SubSeq(s, Len(s) - Len(t) + 1, Len(s))

\* C15 (segment correspondence): a wrapped call returns one line per
\* visible segment, in order, and the escape-stripped text of line i is
\* visible segment i without its leading whitespace, also when the anchor
\* occurs more than once in the search zone.
C15_SegmentCorrespondence ==
    (pc = "done" /\ Wrapped) =>
        /\ Len(ansistr_wrapped) = Len(clearstr_wrapped)
        /\ \A i \in 1..Len(ansistr_wrapped) :
               StripAnsi(ansistr_wrapped[i]) = PyLstrip(clearstr_wrapped[i])

\* C16 (window clamping): when column_width - 3 * match_width is negative,
\* the search zone starts at index 0 of the remaining escaped text, and the
\* cut point computed from a match is never negative.
C16_WindowClamped ==
    (AtSegment /\ Cutleft(column_width, match_width) < 0) =>
        /\ MatchZone(ansistr, column_width, match_width, ansicodes) =
               PySlice(ansistr, 0, Cutright(column_width, ansicodes))
        /\ ~NoMatch =>
               Cutpoint(ansistr, clearstr_wrapped[idx + 1], column_width,
                        match_width, ansicodes) >= 0

\* C17 (segments cover the visible text): the visible segments of the
\* word-wrap step, concatenated in order, are the escape-free text of the
\* input line, character for character.
C17_SegmentsCoverText ==
    (pc \in {"loop", "done"} /\ Wrapped) =>
        Concat(clearstr_wrapped) = StripAnsi(line_arg)

\* what an iteration without a match must do
HardCut ==
    /\ ansistr_wrapped' =
           Append(ansistr_wrapped, PyLstrip(PyHead(ansistr, column_width)))
    /\ ansistr' = PyTail(ansistr, column_width)
    /\ log' = Append(log,
                     IF MatchZone(ansistr, column_width, match_width,
                                  ansicodes) # <<>>
                     THEN "warning" ELSE "debug")
    /\ pc' = "loop"
    /\ clearstr_wrapped' = clearstr_wrapped

\* C18 (hard-cut fallback): when the anchor of the current segment does not
\* occur in the search zone, the cut is made column_width characters into
\* the remaining escaped text, one record is logged (a warning when the zone
\* is not empty, a debug record when it is), and the loop goes on with the
\* next segment.
C18_HardCutFallback == [][(IterationStep /\ NoMatch) => HardCut]_vars

\* a call has returned after hard cuts of both kinds
C18_Witness ==
    /\ pc = "done"
    /\ \E i \in 2..(Len(log) - 1) : log[i] = "warning"
    /\ \E i \in 2..(Len(log) - 1) : log[i] = "debug"

\* the line an iteration emits: the end of what it cuts off the remaining
\* text is kept, and its visible text does not begin with whitespace
EmitsStripped ==
    LET emitted == ansistr_wrapped'[Len(ansistr_wrapped')]
        visible == StripAnsi(emitted)
    IN  /\ IsSuffix(emitted,
                    SubSeq(ansistr, 1, Len(ansistr) - Len(ansistr')))
        /\ visible # <<>> => visible[1] \notin Whitespace

\* C19 (leading whitespace stripped): the escape-stripped text of a line
\* emitted by the loop never begins with a whitespace character, while the
\* whitespace and the escape codes at its end are kept as they are.
C19_LeadingWhitespace == [][IterationStep => EmitsStripped]_vars

\* the loop of wrap_ansicode has processed the last visible segment
LoopOver == pc = "done" /\ clearstr_wrapped # <<>>

\* s is the lines of outs in their order, each one preceded by nothing but
\* whitespace
RECURSIVE CoveredBy(_, _)
CoveredBy(s, outs) ==
    IF outs = <<>> THEN s = <<>>
    ELSE /\ PyHead(PyLstrip(s), Len(outs[1])) = outs[1]
         /\ CoveredBy(PyTail(PyLstrip(s), Len(outs[1])), Tail(outs))

\* C22 (nothing left behind): when the loop of wrap_ansicode has processed
\* the last visible segment the remaining escaped text is empty, and every
\* character of the input line, visible or escape, other than whitespace
\* stripped from the start of an emitted line, is part of some output line.
C22_NothingLeftBehind ==
    LoopOver => ansistr = <<>> /\ CoveredBy(line_arg, ansistr_wrapped)

\* wrapping the line again returns the line alone
FixedPoint(out, cw, mw) == WrapAnsicode(out, cw, mw) = <<out>>

\* C23 (fixed point of wrapping): every line returned by wrap_ansicode(line,
\* w) is a fixed point of wrapping, wrap_ansicode(out, w) = [out] for each
\* output line out, so that the loop of accomodate_motd, which wraps each
\* line it has inserted again, leaves the inserted lines as they are.
C23_FixedPoint ==
    pc = "done" =>
        \A k \in DOMAIN ansistr_wrapped :
            FixedPoint(ansistr_wrapped[k], column_width, match_width)

\* the cut point of the iteration that is about to run
CurrentCutpoint ==
    Cutpoint(ansistr, clearstr_wrapped[idx + 1], column_width, match_width,
             ansicodes)

\* the iteration cuts a non-empty prefix off the remaining text
CursorAdvances ==
    /\ CurrentCutpoint > 0
    /\ Len(ansistr') < Len(ansistr)
    /\ ansistr' = SubSeq(ansistr, Len(ansistr) - Len(ansistr') + 1,
                         Len(ansistr))

\* the loop ran once for each visible segment
OneIterationPerSegment ==
    (pc = "done" /\ clearstr_wrapped # <<>>) =>
        /\ idx = Len(clearstr_wrapped)
        /\ Len(ansistr_wrapped) = Len(clearstr_wrapped)

\* C24 (progress of the cursor): in every iteration of wrap_ansicode in
\* which the remaining escaped text is not empty the cut point is above 0,
\* so a non-empty prefix of the remaining text is cut off and the remaining
\* text gets strictly shorter; the loop ends after exactly as many
\* iterations as there are visible segments.
C24_CursorProgress ==
    /\ []OneIterationPerSegment
    /\ [][(IterationStep /\ ansistr # <<>>) => CursorAdvances]_vars

\* the number of characters of s that belong to escape sequences
EscapeChars(s) == Len(s) - Len(StripAnsi(s))

\* C26 (escape-count accounting): at the start of every iteration of the
\* loop of wrap_ansicode the counter ansicodes is the number of escape
\* sequence characters in the remaining escaped text, and it is never
\* negative; also after an emitted line had leading whitespace stripped and
\* after a hard cut.
C26_EscapeCount ==
    AtSegment => ansicodes = EscapeChars(ansistr) /\ ansicodes >= 0

\* ------------------------------------------------------------------------
\* Properties of accomodate_motd

\* the text of an optional file, empty when the file is not given
TextOf(o) == IF o = None THEN <<>> ELSE Get(o)

\* header, body, link block, footer
ExpectedMotdText ==
    TextOf(head_file)
        \o SoftUnwrap(body_file) \o <<NL>>
        \o (IF Truthy(foot_link) THEN FootLinkText(Get(foot_link)) ELSE <<>>)
        \o TextOf(foot_file)

\* the part a character of the written file comes from: 1 header, 2 body,
\* 3 link block, 4 footer, 0 for the characters several parts share
PartOf(c) ==
    IF c = "h" THEN 1
    ELSE IF c = "b" THEN 2
    ELSE IF c \in {"M", "o", "r", "e", "i", "n", "f", "a", "t", "u"} THEN 3
    ELSE IF c = "g" THEN 4
    ELSE 0

InPartOrder(text) ==
    \A i, j \in 1..Len(text) :
        (i < j /\ PartOf(text[i]) # 0 /\ PartOf(text[j]) # 0)
            => PartOf(text[i]) <= PartOf(text[j])

HasPart(text, k) == \E i \in 1..Len(text) : PartOf(text[i]) = k

\* C9 (order of the parts): the assembled text is header, body, link block,
\* footer, the link block being newline, 'More information in', newline,
\* URL, newline, with or without a footer file; in the written file the
\* characters of the parts follow that order and a part that is absent
\* contributes no character; with wrapping disabled the written file is the
\* assembled text (closed by a newline).
C9_PartsInOrder ==
    /\ motd_pc \in {"wrap", "done"} => motd_text = ExpectedMotdText
    /\ motd_pc = "done" =>
          /\ InPartOrder(Get(written))
          /\ ~Truthy(head_file) => ~HasPart(Get(written), 1)
          /\ ~Truthy(foot_link) => ~HasPart(Get(written), 3)
          /\ ~Truthy(foot_file) => ~HasPart(Get(written), 4)
    /\ (motd_pc = "done" /\ wrap_width = 0) =>
          Get(written) =
              IF ExpectedMotdText[Len(ExpectedMotdText)] = NL
              THEN ExpectedMotdText ELSE ExpectedMotdText \o <<NL>>

\* a header, a body and a link but no footer file, written without wrapping
C9_Witness ==
    /\ motd_pc = "done"
    /\ Truthy(head_file)
    /\ body_file # <<>>
    /\ Truthy(foot_link)
    /\ foot_file = None
    /\ wrap_width = 0
    /\ HasPart(Get(written), 3)

\* ------------------------------------------------------------------------
\* Properties of direct_path

\* parts without the special parts they start with
RECURSIVE DropLeadingSpecial(_)
DropLeadingSpecial(parts) ==
    IF parts # <<>> /\ parts[1] \in special_maps
    THEN DropLeadingSpecial(Tail(parts)) ELSE parts

\* C10 (path cleaning): the returned path is the argument without the
\* special components '..', '.' and '/' it starts with; the components that
\* follow the first ordinary one are all kept ('test/../file' stays
\* 'test/../file').
C10_InwardPath ==
    path_pc = "done" =>
        path_result = PathStr(DropLeadingSpecial(PathParts(rel_path)))

\* ------------------------------------------------------------------------
\* Properties of common_path_join

\* the components of a right path: its parts without the root when the path
\* is absolute, all its parts when it is relative
RightComponents(r) ==
    IF PathRoot(r) # <<>> THEN Tail(PathParts(r)) ELSE PathParts(r)

\* the component names the two paths share
SharedNames(l, r) ==
    Range(PathParts(l)) \cap Range(RightComponents(r))

\* the shared name that lies deepest in the left path
DeepestShared(l, r) ==
    CHOOSE d \in SharedNames(l, r) :
        \A e \in SharedNames(l, r) :
            FirstIndex(PathParts(l), e) <= FirstIndex(PathParts(l), d)

\* the left components before the junction, then the right ones from it on
JunctionJoin(l, r) ==
    SubSeq(PathParts(l), 1, FirstIndex(PathParts(l), DeepestShared(l, r)))
        \o SubSeq(RightComponents(r),
                  FirstIndex(RightComponents(r), DeepestShared(l, r)) + 1,
                  Len(RightComponents(r)))

\* C11 (junction join): when the two paths share a component name, the
\* result is the components of left that precede the junction followed by
\* the components of right from the junction on, the junction being the
\* shared name that lies deepest in left.
C11_JunctionJoin ==
    (join_pc = "done" /\ SharedNames(left_path, right_path) # {}) =>
        /\ ~join_result.raised
        /\ join_result.value = PathStr(JunctionJoin(left_path, right_path))

\* the two examples of the junction join give the documented results
C11_Examples ==
    \A c \in TestJoinCases :
        common_path_join(c[1], c[2]) = [raised |-> FALSE, value |-> c[3]]

\* C20 (leading component): the leading component of right is removed only
\* when right is absolute, so that every component of a relative right path
\* can be the junction, and ValueError is raised exactly when left and right
\* share no component name.
C20_LeadingComponent ==
    join_pc = "done" =>
        /\ right_parts(right_path) = RightComponents(right_path)
        /\ join_result.raised <=> SharedNames(left_path, right_path) = {}

\* ------------------------------------------------------------------------
\* Properties of valid_url

\* the text before the fragment mark '#', the whole URL when it has none
BeforeFragment(url) ==
    IF PyFind(url, <<"#">>) >= 0 THEN PyHead(url, PyFind(url, <<"#">>))
    ELSE url

\* a '?' or a '#' that nothing follows: an empty query or an empty fragment
EmptyMark(url) ==
    \/ PyFind(url, <<"#">>) = Len(url) - 1 /\ url # <<>>
    \/ /\ PyFind(BeforeFragment(url), <<"?">>) >= 0
       /\ PyFind(BeforeFragment(url), <<"?">>) = Len(BeforeFragment(url)) - 1

\* the URL is written the way urlunsplit writes it: nothing for urlsplit to
\* strip, a lower-case scheme, no empty query and no empty fragment
Normalised(url) ==
    /\ url # <<>> => url[1] \notin C0ControlOrSpace
    /\ \A k \in DOMAIN url : url[k] \notin UnsafeUrlBytes
    /\ \A k \in 1..PyFind(url, <<":">>) : url[k] \notin DOMAIN LowerCase
    /\ ~EmptyMark(url)

Returned == url_pc = "done" /\ url_result.error = "none"

\* the parts both statements of C12 share: what is returned has a scheme, a
\* netloc and a path, an empty path has become '/', and a URL that parses
\* without scheme or without netloc raises ArgumentTypeError
C12_Common ==
    /\ Returned =>
        /\ url_result.parsed.scheme # <<>>
        /\ url_result.parsed.netloc # <<>>
        /\ url_result.parsed.path # <<>>
        /\ urlsplit(url_arg).path = <<>> => url_result.parsed.path = <<"/">>
    /\ ( /\ url_pc = "done"
         /\ \/ urlsplit(url_arg).scheme = <<>>
            \/ urlsplit(url_arg).netloc = <<>> )
        => url_result.error = "ArgumentTypeError"

\* C12 as stated: moreover every URL that already has a path is returned
\* with geturl() equal to the input.
C12_GeturlIsInput ==
    /\ C12_Common
    /\ (Returned /\ urlsplit(url_arg).path # <<>>) =>
            geturl(url_result.parsed) = url_arg

\* C12 (URL validation), amended: valid_url returns a parsed URL whose
\* scheme, netloc and path are all non-empty; a URL with an empty path gets
\* the path '/'; a URL that already has a path is returned with geturl()
\* equal to the input when the input is normalised (nothing for urlsplit to
\* strip, lower-case scheme, no empty query or fragment); a URL without
\* scheme or without netloc raises ArgumentTypeError.
C12_ValidUrl ==
    /\ C12_Common
    /\ (Returned /\ urlsplit(url_arg).path # <<>> /\ Normalised(url_arg)) =>
            geturl(url_result.parsed) = url_arg

\* a normalised URL with a path and a query has been returned
C12_Witness ==
    /\ Returned
    /\ Normalised(url_arg)
    /\ urlsplit(url_arg).path # <<>>
    /\ url_result.parsed.query # <<>>

\* ------------------------------------------------------------------------
\* Properties of ANSICodeTranslator

\* the index in the walk of the departure of the main paragraph
LimitIndex ==
    CHOOSE k \in DOMAIN events :
        events[k].op = "depart" /\ Some(events[k].path) = first_main_paragraph

\* within the limit these visits raise SkipNode
SkipsWithinLimit(ev) ==
    /\ ev.op = "visit"
    /\ \/ ev.kind \in {"docinfo", "field_list", "transition"}
       \/ ev.kind = "subtitle" /\ ev.parent # "document"

\* event k is inside a node whose visit raised SkipNode
Skipped(k) ==
    \E j \in 1..(k - 1) : SkipsWithinLimit(events[j]) /\ k <= events[j].close

\* the Text nodes visited by the first n events
VisitedTexts(n) ==
    {k \in 1..n : events[k].op = "visit" /\ events[k].kind = "Text"
                  /\ ~Skipped(k)}

\* the items of body that are the content of a Text node
TextItems ==
    {i \in DOMAIN body : body[i] \in {<<"t">>, WarningBadge, InfoBadge}}

Briefing == briefing /\ walk_pc \in {"walk", "done"}

\* up to the end of the main paragraph nothing is withheld, after it the
\* limit is on
WithinLimitTranslated ==
    Briefing =>
        IF pos <= LimitIndex
        THEN /\ ~beyond_limit
             /\ Cardinality(TextItems) = Cardinality(VisitedTexts(pos - 1))
        ELSE beyond_limit

\* beyond the limit nothing is appended and the limit stays on
BeyondLimitSilent ==
    beyond_limit => beyond_limit' /\ head' = head /\ body' = body

\* C13 (briefing limit): with briefing enabled, everything visited before
\* the end of the first paragraph of the first section is translated
\* (paragraphs inside update directives included); once that paragraph has
\* been departed beyond_limit stays true for the rest of the walk and no
\* later visit or departure appends anything to head or body.
C13_BriefingLimit == []WithinLimitTranslated /\ [][BeyondLimitSilent]_vars

\* a briefing is over: an update directive came before the main paragraph
\* and texts were visited after it
C13_Witness ==
    /\ briefing
    /\ walk_pc = "done"
    /\ beyond_limit
    /\ \E k \in 1..LimitIndex : events[k].kind = "UpdateNode"
    /\ \E k \in LimitIndex..Len(events) :
          events[k].op = "visit" /\ events[k].kind = "Text"

\* ------------------------------------------------------------------------
\* Properties of wrap_ansicode under interleaving

\* C14 (no shared state): whatever the interleaving of the two invocations,
\* each one returns the list that wrap_ansicode returns for its own line,
\* column width and match window when it runs alone.
C14_NoSharedState ==
    \A t \in DOMAIN frames :
        frames[t].pc = "done" =>
            frames[t].ansistr_wrapped =
                WrapAnsicode(frames[t].line_arg, frames[t].column_width,
                             frames[t].match_width)

\* both invocations have wrapped a line with escape sequences, in steps
\* that alternated
C14_Witness ==
    /\ frames # <<>>
    /\ \A t \in DOMAIN frames :
          /\ frames[t].pc = "done"
          /\ Len(frames[t].ansistr_wrapped) >= 2
          /\ StripAnsi(frames[t].line_arg) # frames[t].line_arg
    /\ frames[1].line_arg # frames[2].line_arg

\* ------------------------------------------------------------------------
\* Properties of the construction of ANSICodeTranslator

\* the children of node that are of the kind, by their place
ChildrenOfKind(node, kind) ==
    {i \in DOMAIN node.children : node.children[i].kind = kind}

Least(S) == CHOOSE i \in S : \A j \in S : i <= j

\* the document has a section child and its first one has a paragraph child
HasMainParagraph ==
    /\ ChildrenOfKind(document, "section") # {}
    /\ ChildrenOfKind(
           document.children[Least(ChildrenOfKind(document, "section"))],
           "paragraph") # {}

\* the place of the first paragraph child of the first section child
MainParagraphPlace ==
    LET s == Least(ChildrenOfKind(document, "section"))
    IN  <<s, Least(ChildrenOfKind(document.children[s], "paragraph"))>>

Constructed == walk_pc # "init" /\ walk_pc # "idle"

\* C21 (error exit of the constructor): in briefing mode the constructor
\* calls error_exit only when the document has no section child or its first
\* section has no paragraph child; whenever there is a section child with a
\* paragraph child, at whatever child index each is found (index 0
\* included), first_main_paragraph is that paragraph and no error exit
\* happens.
C21_ErrorExitOnlyWhenMissing ==
    (Constructed /\ briefing) =>
        IF HasMainParagraph
        THEN /\ walk_pc # "exit"
             /\ first_main_paragraph = Some(MainParagraphPlace)
        ELSE walk_pc = "exit"

\* ------------------------------------------------------------------------
\* Properties of section_level

\* the section nodes that enclose the place k of the walk: visited before
\* it and not departed yet
EnclosingSections(k) ==
    {j \in 1..(k - 1) : /\ events[j].op = "visit"
                        /\ events[j].kind = "section"
                        /\ events[j].close >= k}

Walking == walk_pc \in {"walk", "done"}

\* section_level is the number of section nodes the walk is inside of
SectionLevelCounts ==
    Walking => section_level = Cardinality(EnclosingSections(pos))

\* the step taken is visit_title within the limit
TitleStep ==
    /\ walk_pc = "walk"
    /\ pos <= Len(events)
    /\ events[pos].op = "visit"
    /\ events[pos].kind = "title"
    /\ ~beyond_limit
    /\ pos' = pos + 1

\* a title outside every section goes to head with one '#', the title of a
\* section goes to body with one '#' for each section around it
TitleMarks ==
    LET n == Cardinality(EnclosingSections(pos))
    IN  IF n = 0
        THEN /\ head' = Append(head, <<NL>> \o defs.strong[1] \o <<"#", " ">>)
             /\ \A i \in DOMAIN body : body'[i] = body[i]
        ELSE /\ head' = head
             /\ body'[Len(body')] =
                    <<NL>> \o defs.strong[1] \o Hashes(n) \o <<" ">>

\* C25 (section level): during a walk section_level is never negative, it
\* is at each visit_title the number of section nodes that enclose the title
\* (a section title gets that many '#', only a title outside every section
\* goes to head, with a single '#'), it is updated also when beyond_limit is
\* true, and it is 0 again when the walk ends.
C25_SectionLevel ==
    /\ [](section_level >= 0)
    /\ []SectionLevelCounts
    /\ [](walk_pc = "done" => section_level = 0)
    /\ [][TitleStep => TitleMarks]_vars

\* a briefing is over that met a title outside every section and, beyond
\* the limit, the title of a section inside a section
C25_Witness ==
    /\ briefing
    /\ walk_pc = "done"
    /\ beyond_limit
    /\ \E k \in DOMAIN events :
          /\ events[k].op = "visit" /\ events[k].kind = "title"
          /\ EnclosingSections(k) = {}
    /\ \E k \in LimitIndex..Len(events) :
          /\ events[k].op = "visit" /\ events[k].kind = "title"
          /\ Cardinality(EnclosingSections(k)) = 2

====
